---- MODULE Spec2Model ----
(***************************************************************************)
(* Device connectivity and command delivery of the RNR IoT platform.      *)
(*                                                                         *)
(*   backend/api/esp32_manager.py   ESP32DeviceManager (device discovery)  *)
(*   backend/worker/main.py         EnhancedWorkerService (liveness)       *)
(*   backend/api/mqtt_publisher.py  EnhancedMQTTCommandPublisher           *)
(*   backend/api/database.py        nodes / sensor_data tables             *)
(*                                                                         *)
(* Three specifications share the variables: SpecReg (first-seen device    *)
(* registration by concurrent processors), SpecLive (the worker's          *)
(* ingestion thread against its status-monitor thread) and SpecPub (the    *)
(* command publisher against the MQTT client's network thread).           *)
(***************************************************************************)
EXTENDS Integers, Sequences, FiniteSets, TLC

\* ------------------------------------------------------------------ bounds
Devices == {"AA11", "BB22"}
RegProcs == {"p1", "p2"}
MaxRegMsgs == 2

MaxTicks == 5          \* the clock stops after this many steps
MaxLatency == 10       \* longest time (seconds) a thread is suspended after it read the clock
LiveDevices == {"AA11"}

PubThreads == {"t1"}
MaxCmds == 2           \* publish_command calls in a behaviour
MaxClients == 2        \* mqtt.Client objects connect() creates in a behaviour
MaxQueued == 2         \* max_queued_messages_set(100), scaled down
Uuids == {1, 2}
Bodies == {"object", "not_json", "not_utf8"} \* delivery bodies: a JSON object, text that is no JSON, bytes that are no UTF-8
PayloadSizes == {10240, 10241}

MaxIssued == 3         \* command envelopes built in a behaviour
ClockValues == {0, 1, 1000} \* the instants (ms) at which the clock is read
Priorities == {1, 5}

MaxRmqCalls == 2       \* EnhancedRabbitMQClient.publish_command calls in a behaviour
MaxDelivered == 3      \* deliveries handed to the worker's consumer

MaxDeliveries == 3     \* deliveries of one message that are followed
MaxPublished == 2      \* messages published to the queue in a behaviour

MaxConnectCalls == 2   \* calls of a connect loop in a behaviour

MirThreads == {"t1", "t2"} \* threads that call publish_command at the same time
MaxMirCmds == 3        \* their publish_command calls in a behaviour
ManagerRetryDelays == {5, 10} \* MQTT_RETRY_DELAY: the default and one other setting

\* ------------------------------------------------------- program constants
OfflineThreshold == 15 \* self.offline_threshold = timedelta(seconds=15)
SweepInterval == 5     \* threading.Event().wait(5)
MaxPayloadBytes == 10240 \* if len(command_json.encode('utf-8')) > 10240
MsPerSecond == 1000    \* int(datetime.utcnow().timestamp() * 1000)
SendAttempts == 3      \* for attempt in range(3)
MaxReconnectAttempts == 10 \* self.max_reconnect_attempts = 10
ReconnectDelay == 5    \* self.reconnect_delay = 5
MaxBackoff == 60       \* min(self.reconnect_delay * (2 ** attempt), 60)
WorkerMaxRetries == 15 \* worker: self.max_retries = 15
WorkerRetryDelay == 2  \* self.retry_delay = 2
ManagerMaxRetries == 3 \* os.getenv("MQTT_MAX_RETRIES", "3")
ConsumeMaxRetries == 3 \* start_consuming_enhanced: max_retries = 3

NoDev == "none"

VARIABLES
    nodes,              \* nodes table: device id -> number of rows with that node_id
    reg_role,           \* processor -> "api" (ESP32DeviceManager) | "worker"
    reg_pc,             \* processor -> position in its message handler
    reg_dev,            \* processor -> device id of the message being handled
    reg_outcome,        \* processor -> how the registration write of the current message ended
    reg_msgs,           \* processor -> messages handled so far
    connected_devices,  \* processor -> ESP32DeviceManager.connected_devices
    \* --- EnhancedWorkerService
    now,                \* the wall clock, datetime.utcnow(), in seconds
    node_status,        \* self.node_status: device -> [status, last_seen, explicit]
    node_order,         \* the keys of self.node_status in insertion (iteration) order
    db_status,          \* column nodes.status: device -> status
    w_pc,               \* ingestion thread: position in the consumer callback
    w_dev,              \* ingestion thread: node_id of the delivery being handled
    w_msg,              \* ingestion thread: "status" value of a status message
    w_now,              \* ingestion thread: local now
    w_prev,             \* ingestion thread: local previous_status
    w_settle,           \* ingestion thread: how the last delivery was settled
    s_pc,               \* monitor thread: position in check_offline_nodes_enhanced
    s_now,              \* monitor thread: local now
    s_size,             \* monitor thread: size of node_status when iteration began
    s_i,                \* monitor thread: index of the next key to visit
    s_todo,             \* monitor thread: nodes_to_mark_offline still to handle
    s_sleep,            \* monitor thread: seconds left of threading.Event().wait(5)
    \* --- observation of the worker (history, read by no action guard)
    h_spaced,           \* device -> every telemetry so far came less than the threshold after the one before
    h_at_write,         \* tracked status the current telemetry update overwrote
    h_events,           \* status-change events the current telemetry update emitted
    h_off_events,       \* device -> offline events of demotions since its last message
    h_fresh_mark,       \* no message was written for the node since the monitor marked it
    \* --- EnhancedMQTTCommandPublisher
    client,             \* self.client: 0 is None, k > 0 the k-th mqtt.Client created
    is_connected,       \* self.is_connected
    link,               \* the socket of the MQTT client to the broker is up
    next_mid,           \* the message id counter of the current client
    out_messages,       \* QoS-1 messages the clients hold and the broker has not confirmed
    pending_publishes,  \* self.pending_publishes: set of [mid, cmd], one per key mid
    cmds,               \* commands (message_id values) issued so far
    p_pc,               \* calling thread -> position in publish_command
    p_cmd,              \* calling thread -> the envelope (its message_id) being published
    p_dev,              \* calling thread -> node_id
    p_info,             \* calling thread -> message_info of the live publish: [rc, mid]
    \* --- observation of the publisher (history, read by no action guard)
    h_true,             \* commands for which publish_command returned True
    h_accepted,         \* commands whose live publish returned MQTT_ERR_SUCCESS
    h_tracked,          \* commands whose live publish was entered in pending_publishes
    h_confirmed,        \* commands for whose live publish _on_publish has run
    h_msgs,             \* every message a client took into its queue
    h_attempts,         \* calling thread -> connection attempts its current (or last) call made
    clients,            \* every mqtt.Client connect() created: [client, client_id, loop]
    p_size,             \* calling thread -> bytes of the serialized envelope of its current (or last) call
    commands_failed,    \* self.commands_failed
    failed_commands,    \* len(self.failed_commands)
    \* --- command envelopes and the device manager's command path
    c_ms,               \* the wall clock in milliseconds
    issued,             \* every envelope built so far: [seq, by, message_id]
    m_state,            \* ESP32DeviceManager.mqtt_client: "none" | "started" | "unstarted"
    m_link,             \* the manager's client is connected to the broker
    m_out,              \* envelopes (seq) the manager's client holds unsent
    b_queue,            \* broker: envelopes queued in the device's persistent session
    d_online,           \* the device is connected
    d_received,         \* envelopes the device received on devices/{id}/commands
    h_offline_accepted, \* envelopes send_command_to_device returned True for while the device was offline
    \* --- EnhancedRabbitMQClient (publisher role)
    r_pc,               \* position in publish_command: "idle" | "connect" | "publish"
    r_attempt,          \* connect(): the loop variable attempt
    r_is_connected,     \* self.is_connected
    r_open,             \* self.connection exists and is not closed
    r_reconnect_attempts, \* self.reconnect_attempts
    r_delay,            \* seconds of the last backoff sleep
    r_calls,            \* publish_command calls so far
    r_result,           \* what the last publish_command call returned
    r_failed,           \* len(self.failed_messages)
    \* --- the worker's broker connection
    k_pc,               \* position in start_consuming_enhanced: "init" | "connect" | "consume" | "stopped"
    k_origin,           \* which connect_rabbitmq call runs: "start" | "reconnect"
    k_attempt,          \* connect_rabbitmq: the loop variable attempt
    k_retry_count,      \* start_consuming_enhanced: retry_count
    k_open,             \* the worker's connection is open
    k_delivered,        \* deliveries the consumer was handed
    k_settle,           \* how process_sensor_data_enhanced settled the last delivery
    k_error_count,      \* self.error_count
    k_last,             \* the last delivery or sweep mark, with its inputs
    \* --- ESP32DeviceManager.broadcast_command_to_all
    bc_pc,              \* position of the broadcast request: "idle" | "iter" | "send" | "done" | "replied"
    bc_set,             \* self.connected_devices of the device manager
    bc_used,            \* set iterator: size of the set when the iteration began
    bc_rest,            \* set iterator: devices not yet yielded
    bc_dev,             \* the loop variable device_id
    bc_success,         \* success_count
    bc_result,          \* what broadcast_command_to_all returned
    bc_total,           \* connected_count of the route's answer
    h_bc_start,         \* the connected set when the broadcast started
    h_bc_attempted,     \* devices a publish was attempted for
    h_bc_unpublished,   \* devices whose publish failed (error code or exception)
    \* --- one command from its caller to the device's parser
    e_pc,               \* position: "idle" | "send" | "wire" | "parsed"
    e_via,              \* who called: "route" (send_node_action) | "direct" (a caller with its own dict)
    e_command,          \* the command dict handed to the sender: set of <<key, value>>
    e_wire,             \* the JSON text published on devices/{id}/commands
    e_parsed,           \* the dict the device parsed from the text
    e_assigned,         \* the message_id the sender assigned
    h_e_action,         \* the action the caller asked for
    \* --- one message of a queue and the consumer callback it is delivered to
    q_consumer,         \* whose callback: "worker" | "client" | "queue"
    q_body,             \* the body of the message
    q_has_id,           \* a node id can be extracted from the message
    q_pc,               \* "queued" (in the queue) | "settled" (acked or rejected for good)
    q_redelivered,      \* method.redelivered of the next delivery
    q_deliveries,       \* deliveries of the message so far
    q_settles,          \* the basic_ack / basic_nack calls the callback made for the last delivery
    q_published,        \* messages published to the queue so far
    \* --- EnhancedRabbitMQClient shared by its consumer thread, a publishing caller and disconnect()
    x_lock,             \* self.connection_lock: "free" | "closer" (held by disconnect)
    x_is_connected,     \* self.is_connected
    x_open,             \* self.connection is open
    x_consuming,        \* self.consuming
    x_cons,             \* consumer thread: "loop" | "test" | "process" | "reconnect" | "recover" | "exited"
    x_pub,              \* publishing caller: "idle" | "publish" (inside basic_publish)
    x_close,            \* disconnect(): "idle" | "join" | "closed" (it has returned)
    x_message_count,    \* self.message_count: commands published
    \* --- the connect loop of one connection manager and its retry delays
    y_kind,             \* which loop: "client" (EnhancedRabbitMQClient.connect) | "worker" (connect_rabbitmq) | "manager" (_connect_with_retry)
    y_base,             \* its base delay: reconnect_delay / retry_delay
    y_max,              \* its number of attempts: max_reconnect_attempts / max_retries
    y_pc,               \* "try" | "sleep" | "connected" | "failed"
    y_attempt,          \* attempts that have failed in this call before the current one
    y_delay,            \* seconds of the current (or last) sleep of this call
    y_calls,            \* calls of the loop so far
    \* --- concurrent publish_command calls and the retained last-command topic
    z_pc,               \* calling thread -> "idle" | "live" | "mirror"
    z_dev,              \* calling thread -> node_id of its call
    z_cmd,              \* calling thread -> the payload (its number) of its call
    z_live,             \* device -> the payload published last on devices/{id}/commands, 0 if none
    z_retained,         \* device -> the payload retained on devices/{id}/commands/last, 0 if none
    z_issued            \* publish_command calls so far

regVars == <<reg_role, reg_pc, reg_dev, reg_outcome, reg_msgs, connected_devices>>

liveVars == <<now, node_status, node_order, db_status, w_pc, w_dev, w_msg, w_now, w_prev, w_settle,
              s_pc, s_now, s_size, s_i, s_todo, s_sleep,
              h_spaced, h_at_write, h_events, h_off_events, h_fresh_mark>>

pubVars == <<client, is_connected, link, next_mid, out_messages, pending_publishes, cmds,
             p_pc, p_cmd, p_dev, p_info, h_true, h_accepted, h_tracked, h_confirmed, h_msgs,
             h_attempts, clients, p_size, commands_failed, failed_commands>>

cmdVars == <<c_ms, issued, m_state, m_link, m_out, b_queue, d_online, d_received,
             h_offline_accepted>>

rmqVars == <<r_pc, r_attempt, r_is_connected, r_open, r_reconnect_attempts, r_delay, r_calls,
             r_result, r_failed>>

wrkVars == <<k_pc, k_origin, k_attempt, k_retry_count, k_open, k_delivered,
             k_settle, k_error_count, k_last>>

bcVars == <<bc_pc, bc_set, bc_used, bc_rest, bc_dev, bc_success, bc_result, bc_total,
            h_bc_start, h_bc_attempted, h_bc_unpublished>>

envVars == <<e_pc, e_via, e_command, e_wire, e_parsed, e_assigned, h_e_action>>

dlvVars == <<q_consumer, q_body, q_has_id, q_pc, q_redelivered, q_deliveries, q_settles, q_published>>

conVars == <<x_lock, x_is_connected, x_open, x_consuming, x_cons, x_pub, x_close, x_message_count>>

bkoVars == <<y_kind, y_base, y_max, y_pc, y_attempt, y_delay, y_calls>>

mirVars == <<z_pc, z_dev, z_cmd, z_live, z_retained, z_issued>>

otherThanReg == <<liveVars, pubVars, cmdVars, rmqVars, wrkVars, bcVars, envVars, dlvVars, conVars, bkoVars, mirVars>>
otherThanLive == <<regVars, pubVars, cmdVars, rmqVars, wrkVars, bcVars, envVars, dlvVars, conVars, bkoVars, mirVars>>
otherThanPub == <<nodes, regVars, liveVars, cmdVars, rmqVars, wrkVars, bcVars, envVars, dlvVars, conVars, bkoVars, mirVars>>
otherThanCmd == <<nodes, regVars, liveVars, pubVars, rmqVars, wrkVars, bcVars, envVars, dlvVars, conVars, bkoVars, mirVars>>
otherThanRmq == <<nodes, regVars, liveVars, pubVars, cmdVars, wrkVars, bcVars, envVars, dlvVars, conVars, bkoVars, mirVars>>
otherThanWrk == <<regVars, pubVars, cmdVars, rmqVars, mirVars, bkoVars, conVars, dlvVars, envVars, bcVars,
                  w_pc, w_dev, w_msg, w_now, w_prev, w_settle,
                  s_pc, s_now, s_size, s_i, s_todo, s_sleep,
                  h_spaced, h_at_write, h_events, h_off_events, h_fresh_mark>>
otherThanBc == <<nodes, regVars, liveVars, pubVars, cmdVars, rmqVars, wrkVars, envVars, dlvVars, conVars, bkoVars, mirVars>>
otherThanEnv == <<nodes, regVars, liveVars, pubVars, cmdVars, rmqVars, wrkVars, bcVars, dlvVars, conVars, bkoVars, mirVars>>
otherThanDlv == <<nodes, regVars, liveVars, pubVars, cmdVars, rmqVars, wrkVars, bcVars, envVars, conVars, bkoVars, mirVars>>
otherThanCon == <<nodes, regVars, liveVars, pubVars, cmdVars, rmqVars, wrkVars, bcVars, envVars, dlvVars, bkoVars, mirVars>>
otherThanBko == <<nodes, regVars, liveVars, pubVars, cmdVars, rmqVars, wrkVars, bcVars, envVars, dlvVars, conVars, mirVars>>
otherThanMir == <<nodes, regVars, liveVars, pubVars, cmdVars, rmqVars, wrkVars, bcVars, envVars, dlvVars, conVars, bkoVars>>

vars == <<nodes, reg_role, reg_pc, reg_dev, reg_outcome, reg_msgs, connected_devices,
          now, node_status, node_order, db_status, w_pc, w_dev, w_msg, w_now, w_prev, w_settle,
          s_pc, s_now, s_size, s_i, s_todo, s_sleep,
          h_spaced, h_at_write, h_events, h_off_events, h_fresh_mark,
          client, is_connected, link, next_mid, out_messages, pending_publishes, cmds,
          p_pc, p_cmd, p_dev, p_info, h_true, h_accepted, h_tracked, h_confirmed, h_msgs,
          h_attempts,
          c_ms, issued, m_state, m_link, m_out, b_queue, d_online, d_received,
          h_offline_accepted,
          r_pc, r_attempt, r_is_connected, r_open, r_reconnect_attempts, r_delay, r_calls,
          r_result, r_failed,
          k_pc, k_origin, k_attempt, k_retry_count, k_open, k_delivered,
          k_settle, k_error_count, k_last, clients, p_size, commands_failed, failed_commands,
          bc_pc, bc_set, bc_used, bc_rest, bc_dev, bc_success, bc_result, bc_total, h_bc_start, h_bc_attempted, h_bc_unpublished,
          e_pc, e_via, e_command, e_wire, e_parsed, e_assigned, h_e_action,
          q_consumer, q_body, q_has_id, q_pc, q_redelivered, q_deliveries, q_settles, q_published, q_published,
          x_lock, x_is_connected, x_open, x_consuming, x_cons, x_pub, x_close, x_message_count,
          y_kind, y_base, y_max, y_pc, y_attempt, y_delay, y_calls,
          z_pc, z_dev, z_cmd, z_live, z_retained, z_issued>>

\* ---------------------------------------------------------- nodes table
\* database.py: node_id = Column(String, unique=True, ...): a second row with
\* the same node_id is rejected by the unique index.
UniqueViolationNoIndex(tbl, d) == FALSE

UniqueViolation(tbl, d) == tbl[d] > 0

\* db.add(new_device); db.commit()
InsertNode(tbl, d) == [tbl EXCEPT ![d] = @ + 1]

\* INSERT INTO nodes ... ON CONFLICT (node_id) DO UPDATE SET ...
UpsertNode(tbl, d) == IF UniqueViolation(tbl, d) THEN tbl ELSE InsertNode(tbl, d)

\* sensor_data.node_id is a foreign key to nodes.node_id
ForeignKeyOk(tbl, d) == tbl[d] > 0

\* ------------------------------------------------ SpecReg: registration
RegInit ==
    /\ nodes = [d \in Devices |-> 0]
    /\ reg_role \in [RegProcs -> {"api", "worker"}]
    /\ reg_pc = [p \in RegProcs |-> "idle"]
    /\ reg_dev = [p \in RegProcs |-> NoDev]
    /\ reg_outcome = [p \in RegProcs |-> "none"]
    /\ reg_msgs = [p \in RegProcs |-> 0]
    /\ connected_devices = [p \in RegProcs |-> {}]

\* ESP32DeviceManager._process_device_message_sync: register only a device that
\* is not in the connected set.
ApiReceive(p, d) ==
    /\ reg_role[p] = "api"
    /\ reg_pc[p] = "idle"
    /\ reg_msgs[p] < MaxRegMsgs
    /\ reg_dev' = [reg_dev EXCEPT ![p] = d]
    /\ reg_msgs' = [reg_msgs EXCEPT ![p] = @ + 1]
    /\ reg_outcome' = [reg_outcome EXCEPT ![p] = "none"]
    /\ reg_pc' = [reg_pc EXCEPT ![p] = IF d \in connected_devices[p] THEN "idle" ELSE "query"]
    /\ UNCHANGED <<nodes, reg_role, connected_devices>>
    /\ UNCHANGED otherThanReg

\* _auto_register_device_sync: existing_device = db.query(Node)...first()
ApiQuery(p) ==
    /\ reg_pc[p] = "query"
    /\ reg_pc' = [reg_pc EXCEPT ![p] = IF nodes[reg_dev[p]] > 0 THEN "update" ELSE "insert"]
    /\ UNCHANGED <<nodes, reg_role, reg_dev, reg_outcome, reg_msgs, connected_devices>>
    /\ UNCHANGED otherThanReg

\* _auto_register_device_sync, "if not existing_device": add + commit.  A unique
\* violation raises out of the function before connected_devices.add.
ApiInsert(p) ==
    /\ reg_pc[p] = "insert"
    /\ LET d == reg_dev[p] IN
         IF UniqueViolation(nodes, d)
         THEN /\ reg_outcome' = [reg_outcome EXCEPT ![p] = "conflict"]
              /\ UNCHANGED <<nodes, connected_devices>>
         ELSE /\ nodes' = InsertNode(nodes, d)
              /\ reg_outcome' = [reg_outcome EXCEPT ![p] = "inserted"]
              /\ connected_devices' = [connected_devices EXCEPT ![p] = @ \cup {d}]
    /\ reg_pc' = [reg_pc EXCEPT ![p] = "idle"]
    /\ UNCHANGED <<reg_role, reg_dev, reg_msgs>>
    /\ UNCHANGED otherThanReg

\* _auto_register_device_sync, else branch: mark the existing row active.
ApiUpdate(p) ==
    /\ reg_pc[p] = "update"
    /\ reg_outcome' = [reg_outcome EXCEPT ![p] = "updated"]
    /\ connected_devices' = [connected_devices EXCEPT ![p] = @ \cup {reg_dev[p]}]
    /\ reg_pc' = [reg_pc EXCEPT ![p] = "idle"]
    /\ UNCHANGED <<nodes, reg_role, reg_dev, reg_msgs>>
    /\ UNCHANGED otherThanReg

\* The commit of either branch fails for a reason other than the unique index
\* (database unavailable): the except clause logs and returns.
ApiDbError(p) ==
    /\ reg_pc[p] \in {"insert", "update"}
    /\ reg_outcome' = [reg_outcome EXCEPT ![p] = "error"]
    /\ reg_pc' = [reg_pc EXCEPT ![p] = "idle"]
    /\ UNCHANGED <<nodes, reg_role, reg_dev, reg_msgs, connected_devices>>
    /\ UNCHANGED otherThanReg

\* EnhancedWorkerService.process_sensor_data_enhanced up to the result of
\* store_sensor_data_enhanced: the INSERT INTO sensor_data needs the nodes row.
WorkerReceiveStore(p, d) ==
    /\ reg_role[p] = "worker"
    /\ reg_pc[p] = "idle"
    /\ reg_msgs[p] < MaxRegMsgs
    /\ reg_dev' = [reg_dev EXCEPT ![p] = d]
    /\ reg_msgs' = [reg_msgs EXCEPT ![p] = @ + 1]
    /\ IF ForeignKeyOk(nodes, d)
       THEN /\ reg_pc' = [reg_pc EXCEPT ![p] = "upsert"]
            /\ reg_outcome' = [reg_outcome EXCEPT ![p] = "none"]
       ELSE /\ reg_pc' = [reg_pc EXCEPT ![p] = "idle"]
            /\ reg_outcome' = [reg_outcome EXCEPT ![p] = "store_failed"]
    /\ UNCHANGED <<nodes, reg_role, connected_devices>>
    /\ UNCHANGED otherThanReg

\* EnhancedWorkerService.update_node_status_enhanced: the upsert statement.
WorkerUpsert(p) ==
    /\ reg_pc[p] = "upsert"
    /\ nodes' = UpsertNode(nodes, reg_dev[p])
    /\ reg_outcome' = [reg_outcome EXCEPT ![p] = "upserted"]
    /\ reg_pc' = [reg_pc EXCEPT ![p] = "idle"]
    /\ UNCHANGED <<reg_role, reg_dev, reg_msgs, connected_devices>>
    /\ UNCHANGED otherThanReg

NextReg ==
    \/ \E p \in RegProcs, d \in Devices : ApiReceive(p, d)
    \/ \E p \in RegProcs : ApiQuery(p)
    \/ \E p \in RegProcs : ApiInsert(p)
    \/ \E p \in RegProcs : ApiUpdate(p)
    \/ \E p \in RegProcs : ApiDbError(p)
    \/ \E p \in RegProcs, d \in Devices : WorkerReceiveStore(p, d)
    \/ \E p \in RegProcs : WorkerUpsert(p)

\* --------------------------------------- SpecLive: the liveness tracker
\* An entry of self.node_status.  A status message stores explicit_status: True;
\* the data_points counter of a telemetry entry is only reported, never read by
\* a decision, and is left out.
Entry(st, seen, ex) == [status |-> st, last_seen |-> seen, explicit |-> ex]

NoEntry == Entry("absent", 0, FALSE)

StatusValues == {"online", "offline", "unknown"}

\* self.node_status.get(node_id, {}).get('status', 'offline')
PreviousStatus(ns, d) == IF ns[d].status = "absent" THEN "offline" ELSE ns[d].status

\* update_node_status_enhanced: if previous_status == 'offline': broadcast
CameOnlineAlways(prev) == TRUE

CameOnline(prev) == prev = "offline"

\* check_offline_nodes_enhanced: time_since_last_seen > self.offline_threshold
IsStale(t, seen) == t - seen > OfflineThreshold

\* check_offline_nodes_enhanced: the test that puts a node on nodes_to_mark_offline
ShouldMarkAnyStatus(info, t) == IsStale(t, info.last_seen)

ShouldMarkOffline(info, t) == info.status = "online" /\ IsStale(t, info.last_seen)

\* UPDATE nodes SET status = ... WHERE node_id = ...: changes a row only if there is one
UpdateStatus(col, tbl, d, st) == IF tbl[d] > 0 THEN [col EXCEPT ![d] = st] ELSE col

LiveIdle ==
    /\ now = 0
    /\ node_status = [d \in LiveDevices |-> NoEntry]
    /\ node_order = <<>>
    /\ db_status = [d \in LiveDevices |-> "none"]
    /\ w_pc = "idle" /\ w_dev = NoDev /\ w_msg = "none" /\ w_now = 0 /\ w_prev = "none"
    /\ w_settle = "none"
    /\ s_pc = "idle" /\ s_now = 0 /\ s_size = 0 /\ s_i = 0 /\ s_todo = <<>> /\ s_sleep = 0
    /\ h_spaced = [d \in LiveDevices |-> TRUE]
    /\ h_at_write = "none"
    /\ h_events = 0
    /\ h_off_events = [d \in LiveDevices |-> 0]
    /\ h_fresh_mark = FALSE

\* The database the worker starts against: a device is registered already (by
\* the API's device manager) or not.
LiveInit ==
    /\ nodes \in [Devices -> {0, 1}]
    /\ \A d \in Devices \ LiveDevices : nodes[d] = 0
    /\ LiveIdle

\* No registration processor runs in SpecLive.
RegIdle ==
    /\ reg_role = [p \in RegProcs |-> "api"]
    /\ reg_pc = [p \in RegProcs |-> "idle"]
    /\ reg_dev = [p \in RegProcs |-> NoDev]
    /\ reg_outcome = [p \in RegProcs |-> "none"]
    /\ reg_msgs = [p \in RegProcs |-> 0]
    /\ connected_devices = [p \in RegProcs |-> {}]

wLocals == <<w_dev, w_msg, w_now, w_prev>>
sLocals == <<s_now, s_size, s_i, s_todo>>
hVars == <<h_spaced, h_at_write, h_events, h_off_events, h_fresh_mark>>

\* Time passes.  Every duration of the worker (the threshold, the monitor's wait)
\* is a multiple of the monitor's period, and the clock advances by that period;
\* what happens within one period is ordered by the interleaving, not by the
\* clock.  A thread that has read the clock is resumed within MaxLatency.
\* After MaxTicks steps the clock reading stays; waits still run out.
Tick ==
    /\ w_pc \in {"idle", "upd_now"} \/ now + SweepInterval - w_now <= MaxLatency
    /\ s_pc = "idle" \/ now + SweepInterval - s_now <= MaxLatency
    /\ now' = IF now < MaxTicks * SweepInterval THEN now + SweepInterval ELSE now
    /\ s_sleep' = IF s_pc = "idle" /\ s_sleep > 0 THEN s_sleep - SweepInterval ELSE s_sleep
    /\ UNCHANGED <<nodes, node_status, node_order, db_status, w_pc, wLocals, w_settle,
                   s_pc, sLocals, hVars>>
    /\ UNCHANGED otherThanLive

\* process_sensor_data_enhanced: store_sensor_data_enhanced returned True.
WStoreOk(d) ==
    /\ w_pc = "idle"
    /\ ForeignKeyOk(nodes, d)
    /\ w_pc' = "upd_now"
    /\ w_dev' = d
    /\ w_settle' = "none"
    /\ UNCHANGED <<nodes, now, node_status, node_order, db_status, w_msg, w_now, w_prev,
                   s_pc, sLocals, s_sleep, hVars>>
    /\ UNCHANGED otherThanLive

\* process_sensor_data_enhanced: store_sensor_data_enhanced returned False (the
\* insert violated the foreign key, or the database failed): nack, no requeue.
WStoreFail(d) ==
    /\ w_pc = "idle"
    /\ w_settle' = "nack"
    /\ UNCHANGED <<nodes, now, node_status, node_order, db_status, w_pc, wLocals,
                   s_pc, sLocals, s_sleep, hVars>>
    /\ UNCHANGED otherThanLive

\* update_node_status_enhanced: now = datetime.utcnow()
WUpdNow ==
    /\ w_pc = "upd_now"
    /\ w_now' = now
    /\ w_pc' = "upd_read"
    /\ UNCHANGED <<nodes, now, node_status, node_order, db_status, w_dev, w_msg, w_prev,
                   w_settle, s_pc, sLocals, s_sleep, hVars>>
    /\ UNCHANGED otherThanLive

\* update_node_status_enhanced: previous_status = self.node_status.get(...)...
WUpdRead ==
    /\ w_pc = "upd_read"
    /\ w_prev' = PreviousStatus(node_status, w_dev)
    /\ w_pc' = "upd_write"
    /\ UNCHANGED <<nodes, now, node_status, node_order, db_status, w_dev, w_msg, w_now,
                   w_settle, s_pc, sLocals, s_sleep, hVars>>
    /\ UNCHANGED otherThanLive

\* update_node_status_enhanced: self.node_status[node_id] = {'status': 'online', ...}
WUpdWrite ==
    /\ w_pc = "upd_write"
    /\ LET old == node_status[w_dev] IN
         /\ node_status' = [node_status EXCEPT ![w_dev] = Entry("online", w_now, FALSE)]
         /\ node_order' = IF old.status = "absent" THEN Append(node_order, w_dev) ELSE node_order
         /\ h_at_write' = old.status
         /\ h_spaced' = [h_spaced EXCEPT ![w_dev] =
                            \/ old.status = "absent"
                            \/ @ /\ ~old.explicit /\ w_now - old.last_seen < OfflineThreshold]
    /\ h_off_events' = [h_off_events EXCEPT ![w_dev] = 0]
    /\ h_fresh_mark' = IF s_pc \in {"persist", "emit"} /\ Head(s_todo) = w_dev
                       THEN FALSE ELSE h_fresh_mark
    /\ w_pc' = "upd_db"
    /\ UNCHANGED <<nodes, now, db_status, wLocals, w_settle, s_pc, sLocals, s_sleep, h_events>>
    /\ UNCHANGED otherThanLive

\* update_node_status_enhanced: the upsert commits; then the online broadcast.
WUpdDbOk ==
    /\ w_pc = "upd_db"
    /\ nodes' = UpsertNode(nodes, w_dev)
    /\ db_status' = [db_status EXCEPT ![w_dev] = "online"]
    /\ h_events' = IF CameOnline(w_prev) THEN h_events + 1 ELSE h_events
    /\ w_pc' = "finish"
    /\ UNCHANGED <<now, node_status, node_order, wLocals, w_settle, s_pc, sLocals, s_sleep,
                   h_spaced, h_at_write, h_off_events, h_fresh_mark>>
    /\ UNCHANGED otherThanLive

\* update_node_status_enhanced: execute/commit raises; the except clause rolls
\* back and returns, past the broadcast.
WUpdDbFail ==
    /\ w_pc = "upd_db"
    /\ w_pc' = "finish"
    /\ UNCHANGED <<nodes, now, node_status, node_order, db_status, wLocals, w_settle,
                   s_pc, sLocals, s_sleep, hVars>>
    /\ UNCHANGED otherThanLive

\* process_sensor_data_enhanced: broadcast_sensor_data_enhanced, basic_ack.
\* process_status_update: basic_ack.
WFinish ==
    /\ w_pc = "finish"
    /\ w_settle' = "ack"
    /\ w_pc' = "idle"
    /\ w_dev' = NoDev /\ w_msg' = "none" /\ w_now' = 0 /\ w_prev' = "none"
    /\ h_at_write' = "none"
    /\ h_events' = 0
    /\ UNCHANGED <<nodes, now, node_status, node_order, db_status, s_pc, sLocals, s_sleep,
                   h_spaced, h_off_events, h_fresh_mark>>
    /\ UNCHANGED otherThanLive

\* process_status_update -> update_node_status_from_status_message:
\* status = status_data.get('status', 'unknown'); now = datetime.utcnow()
WStatusBegin(d, st) ==
    /\ w_pc = "idle"
    /\ w_dev' = d
    /\ w_msg' = st
    /\ w_now' = now
    /\ w_pc' = "st_write"
    /\ w_settle' = "none"
    /\ UNCHANGED <<nodes, now, node_status, node_order, db_status, w_prev,
                   s_pc, sLocals, s_sleep, hVars>>
    /\ UNCHANGED otherThanLive

\* update_node_status_from_status_message: self.node_status[node_id] = {...}
WStatusWrite ==
    /\ w_pc = "st_write"
    /\ node_status' = [node_status EXCEPT ![w_dev] = Entry(w_msg, w_now, TRUE)]
    /\ node_order' = IF node_status[w_dev].status = "absent"
                     THEN Append(node_order, w_dev) ELSE node_order
    /\ h_off_events' = [h_off_events EXCEPT ![w_dev] = 0]
    /\ h_fresh_mark' = IF s_pc \in {"persist", "emit"} /\ Head(s_todo) = w_dev
                       THEN FALSE ELSE h_fresh_mark
    /\ w_pc' = "st_db"
    /\ UNCHANGED <<nodes, now, db_status, wLocals, w_settle, s_pc, sLocals, s_sleep,
                   h_spaced, h_at_write, h_events>>
    /\ UNCHANGED otherThanLive

\* update_node_status_from_status_message: UPDATE nodes SET status = :status ...
WStatusDbOk ==
    /\ w_pc = "st_db"
    /\ db_status' = UpdateStatus(db_status, nodes, w_dev, w_msg)
    /\ w_pc' = "finish"
    /\ UNCHANGED <<nodes, now, node_status, node_order, wLocals, w_settle,
                   s_pc, sLocals, s_sleep, hVars>>
    /\ UNCHANGED otherThanLive

WStatusDbFail ==
    /\ w_pc = "st_db"
    /\ w_pc' = "finish"
    /\ UNCHANGED <<nodes, now, node_status, node_order, db_status, wLocals, w_settle,
                   s_pc, sLocals, s_sleep, hVars>>
    /\ UNCHANGED otherThanLive

\* enhanced_status_monitor: the wait is over; check_offline_nodes_enhanced begins:
\* now = datetime.utcnow(); nodes_to_mark_offline = []; iter(self.node_status.items())
SweepStart ==
    /\ s_pc = "idle"
    /\ s_sleep = 0
    /\ s_now' = now
    /\ s_size' = Len(node_order)
    /\ s_i' = 1
    /\ s_todo' = <<>>
    /\ s_pc' = "scan"
    /\ UNCHANGED <<nodes, now, node_status, node_order, db_status, w_pc, wLocals, w_settle,
                   s_sleep, hVars>>
    /\ UNCHANGED otherThanLive

\* check_offline_nodes_enhanced: one round of the for loop over the items.
SweepScan ==
    /\ s_pc = "scan"
    /\ Len(node_order) = s_size
    /\ s_i <= s_size
    /\ LET d == node_order[s_i] IN
         s_todo' = IF ShouldMarkOffline(node_status[d], s_now)
                   THEN Append(s_todo, d) ELSE s_todo
    /\ s_i' = s_i + 1
    /\ UNCHANGED <<nodes, now, node_status, node_order, db_status, w_pc, wLocals, w_settle,
                   s_pc, s_now, s_size, s_sleep, hVars>>
    /\ UNCHANGED otherThanLive

\* check_offline_nodes_enhanced: the iterator is exhausted.
SweepScanDone ==
    /\ s_pc = "scan"
    /\ Len(node_order) = s_size
    /\ s_i > s_size
    /\ s_pc' = "mark"
    /\ UNCHANGED <<nodes, now, node_status, node_order, db_status, w_pc, wLocals, w_settle,
                   sLocals, s_sleep, hVars>>
    /\ UNCHANGED otherThanLive

\* check_offline_nodes_enhanced: the ingestion thread added a key during the
\* iteration: "dictionary changed size during iteration" lands in the except
\* clause and the check ends; the monitor waits again.
SweepIterError ==
    /\ s_pc = "scan"
    /\ Len(node_order) # s_size
    /\ s_pc' = "idle"
    /\ s_sleep' = SweepInterval
    /\ s_now' = 0 /\ s_size' = 0 /\ s_i' = 0 /\ s_todo' = <<>>
    /\ UNCHANGED <<nodes, now, node_status, node_order, db_status, w_pc, wLocals, w_settle,
                   hVars>>
    /\ UNCHANGED otherThanLive

\* check_offline_nodes_enhanced: self.node_status[node_id]['status'] = 'offline'
SweepMark ==
    /\ s_pc = "mark"
    /\ s_todo # <<>>
    /\ node_status' = [node_status EXCEPT ![Head(s_todo)].status = "offline"]
    /\ h_fresh_mark' = TRUE
    /\ s_pc' = "persist"
    /\ UNCHANGED <<nodes, now, node_order, db_status, w_pc, wLocals, w_settle,
                   sLocals, s_sleep, h_spaced, h_at_write, h_events, h_off_events>>
    /\ UNCHANGED otherThanLive

\* update_node_status_offline_enhanced: UPDATE nodes SET status = 'offline' ...
SweepPersistOk ==
    /\ s_pc = "persist"
    /\ db_status' = UpdateStatus(db_status, nodes, Head(s_todo), "offline")
    /\ s_pc' = "emit"
    /\ UNCHANGED <<nodes, now, node_status, node_order, w_pc, wLocals, w_settle,
                   sLocals, s_sleep, hVars>>
    /\ UNCHANGED otherThanLive

\* update_node_status_offline_enhanced: the update raises and is logged.
SweepPersistFail ==
    /\ s_pc = "persist"
    /\ s_pc' = "emit"
    /\ UNCHANGED <<nodes, now, node_status, node_order, db_status, w_pc, wLocals, w_settle,
                   sLocals, s_sleep, hVars>>
    /\ UNCHANGED otherThanLive

\* check_offline_nodes_enhanced: broadcast_status_change_enhanced(node_id, 'offline', ...)
SweepEmit ==
    /\ s_pc = "emit"
    /\ h_off_events' = [h_off_events EXCEPT ![Head(s_todo)] =
                           IF h_fresh_mark THEN @ + 1 ELSE @]
    /\ h_fresh_mark' = FALSE
    /\ s_todo' = Tail(s_todo)
    /\ s_pc' = "mark"
    /\ UNCHANGED <<nodes, now, node_status, node_order, db_status, w_pc, wLocals, w_settle,
                   s_now, s_size, s_i, s_sleep, h_spaced, h_at_write, h_events>>
    /\ UNCHANGED otherThanLive

\* check_offline_nodes_enhanced returns; enhanced_status_monitor: wait(5)
SweepEnd ==
    /\ s_pc = "mark"
    /\ s_todo = <<>>
    /\ s_pc' = "idle"
    /\ s_sleep' = SweepInterval
    /\ s_now' = 0 /\ s_size' = 0 /\ s_i' = 0
    /\ UNCHANGED <<nodes, now, node_status, node_order, db_status, w_pc, wLocals, w_settle,
                   s_todo, hVars>>
    /\ UNCHANGED otherThanLive

NextLive ==
    \/ Tick
    \/ \E d \in LiveDevices : WStoreOk(d)
    \/ \E d \in LiveDevices : WStoreFail(d)
    \/ WUpdNow
    \/ WUpdRead
    \/ WUpdWrite
    \/ WUpdDbOk
    \/ WUpdDbFail
    \/ WFinish
    \/ \E d \in LiveDevices, st \in StatusValues : WStatusBegin(d, st)
    \/ WStatusWrite
    \/ WStatusDbOk
    \/ WStatusDbFail
    \/ SweepStart
    \/ SweepScan
    \/ SweepScanDone
    \/ SweepIterError
    \/ SweepMark
    \/ SweepPersistOk
    \/ SweepPersistFail
    \/ SweepEmit
    \/ SweepEnd

\* ----------------------------------- SpecPub: the command publisher
\* MQTTMessageInfo of a client.publish call: its return code and message id.
NoInfo == [rc |-> "none", mid |-> 0]

\* topic = f"devices/{node_id}/commands"
CommandTopic(d) == <<"devices", d, "commands">>

\* retained_topic = f"{topic}/last"
LastTopic(topic) == Append(topic, "last")

\* A QoS-1 message handed to client k: payload is the envelope, named by its message_id.
Message(mid, c, topic, r, k) ==
    [mid |-> mid, cmd |-> c, topic |-> topic, retain |-> r, client |-> k]

\* self.client.max_queued_messages_set(...): the client takes no further QoS-1
\* message while that many are unconfirmed.
QueueFull(out, k) == Cardinality({m \in out : m.client = k}) >= MaxQueued

\* message_info.rc of self.client.publish(..., qos=1): a full queue refuses the
\* message; without a connection the message stays queued and the code is NO_CONN.
PublishRc(out, k, up) ==
    IF QueueFull(out, k) THEN "QUEUE_SIZE" ELSE IF up THEN "SUCCESS" ELSE "NO_CONN"

Enqueue(out, m) == IF QueueFull(out, m.client) THEN out ELSE out \cup {m}

\* if message_info.rc == mqtt.MQTT_ERR_SUCCESS
PublishAcceptedAny(rc) == TRUE

PublishAccepted(rc) == rc = "SUCCESS"

\* self.pending_publishes[message_info.mid] = {...}
Track(tbl, mid, c) == {e \in tbl : e.mid # mid} \cup {[mid |-> mid, cmd |-> c]}

\* self.pending_publishes.pop(mid), guarded by "if mid in self.pending_publishes"
Pop(tbl, mid) == {e \in tbl : e.mid # mid}

\* len(command_json.encode('utf-8')) > 10240
TooLargeInclusive(sz) == sz >= MaxPayloadBytes

TooLarge(sz) == sz > MaxPayloadBytes

\* client_id = f"rnr_backend_publisher_{uuid.uuid4().hex[:8]}"
ClientId(u) == <<"rnr_backend_publisher", u>>

\* mqtt.Client(client_id=client_id, clean_session=self.clean_session, ...), the k-th
\* one; loop: loop_start() was called on it (connect() never stops a loop).
NewClient(k, u, started) ==
    [client |-> k, client_id |-> ClientId(u), clean_session |-> FALSE, loop |-> started]

\* connect(): if self.is_connected and self.client and self.client.is_connected()
AlreadyConnected == is_connected /\ client # 0 /\ link

PubIdle ==
    /\ client = 0 /\ is_connected = FALSE /\ link = FALSE /\ next_mid = 0
    /\ out_messages = {} /\ pending_publishes = {} /\ cmds = 0
    /\ p_pc = [t \in PubThreads |-> "idle"]
    /\ p_cmd = [t \in PubThreads |-> 0]
    /\ p_dev = [t \in PubThreads |-> NoDev]
    /\ p_info = [t \in PubThreads |-> NoInfo]
    /\ h_true = {} /\ h_accepted = {} /\ h_tracked = {} /\ h_confirmed = {} /\ h_msgs = {}
    /\ h_attempts = [t \in PubThreads |-> 0]
    /\ clients = {}
    /\ p_size = [t \in PubThreads |-> 0]
    /\ commands_failed = 0
    /\ failed_commands = 0

PubInit ==
    /\ nodes = [d \in Devices |-> 0]
    /\ PubIdle

pLocals == <<p_cmd, p_dev, p_info>>
pHist == <<h_true, h_accepted, h_tracked, h_confirmed, h_msgs>>
pConn == <<client, is_connected, link, next_mid>>

\* The call is over: back to the caller.
Return(t) ==
    /\ p_pc' = [p_pc EXCEPT ![t] = "idle"]
    /\ p_cmd' = [p_cmd EXCEPT ![t] = 0]
    /\ p_dev' = [p_dev EXCEPT ![t] = NoDev]
    /\ p_info' = [p_info EXCEPT ![t] = NoInfo]

\* publish_command(node_id, command): if not self.client or not self.is_connected
\* the call connects first.  The envelope gets a fresh message_id (uuid4); sz is
\* the size in bytes the command makes json.dumps(enhanced_command) have.
PBegin(t, d, sz) ==
    /\ p_pc[t] = "idle"
    /\ cmds < MaxCmds
    /\ (client # 0 /\ is_connected) \/ client < MaxClients
    /\ cmds' = cmds + 1
    /\ p_cmd' = [p_cmd EXCEPT ![t] = cmds + 1]
    /\ p_dev' = [p_dev EXCEPT ![t] = d]
    /\ p_pc' = [p_pc EXCEPT ![t] = IF client # 0 /\ is_connected THEN "build" ELSE "connect"]
    /\ UNCHANGED <<pConn, out_messages, pending_publishes, p_info, pHist>>
    /\ h_attempts' = [h_attempts EXCEPT ![t] = 0]
    /\ p_size' = [p_size EXCEPT ![t] = sz]
    /\ UNCHANGED <<clients, commands_failed, failed_commands, otherThanPub>>

\* connect() finds the publisher connected (the network thread reconnected meanwhile).
PConnectAlready(t) ==
    /\ p_pc[t] = "connect"
    /\ AlreadyConnected
    /\ p_pc' = [p_pc EXCEPT ![t] = "build"]
    /\ UNCHANGED <<pConn, out_messages, pending_publishes, cmds, pLocals, pHist>>
    /\ UNCHANGED <<h_attempts, clients, p_size, commands_failed, failed_commands, otherThanPub>>

\* connect() creates a new mqtt.Client, connects it, starts its network loop and
\* sees is_connected set by _on_connect.
PConnectOk(t) ==
    /\ p_pc[t] = "connect"
    /\ ~AlreadyConnected
    /\ client < MaxClients
    /\ client' = client + 1
    /\ next_mid' = 0
    /\ link' = TRUE
    /\ is_connected' = TRUE
    /\ p_pc' = [p_pc EXCEPT ![t] = "build"]
    /\ \E u \in Uuids : clients' = clients \cup {NewClient(client + 1, u, TRUE)}
    /\ UNCHANGED <<out_messages, pending_publishes, cmds, pLocals, pHist>>
    /\ h_attempts' = [h_attempts EXCEPT ![t] = @ + 1]
    /\ UNCHANGED <<p_size, commands_failed, failed_commands, otherThanPub>>

\* connect() creates a new mqtt.Client and fails to connect it: publish_command
\* returns False.  Either client.connect failed (no network loop was started), or
\* loop_start() ran and the 10 s wait for _on_connect timed out (the loop goes on).
PConnectFail(t) ==
    /\ p_pc[t] = "connect"
    /\ ~AlreadyConnected
    /\ client < MaxClients
    /\ client' = client + 1
    /\ next_mid' = 0
    /\ link' = FALSE
    /\ Return(t)
    /\ \E u \in Uuids, started \in BOOLEAN :
           clients' = clients \cup {NewClient(client + 1, u, started)}
    /\ commands_failed' = commands_failed + 1
    /\ UNCHANGED <<is_connected, out_messages, pending_publishes, cmds, pHist>>
    /\ h_attempts' = [h_attempts EXCEPT ![t] = @ + 1]
    /\ UNCHANGED <<p_size, failed_commands, otherThanPub>>

\* The envelope is serialized and its size validated; an oversize command is
\* refused with False before anything is published.
PBuild(t) ==
    /\ p_pc[t] = "build"
    /\ IF TooLarge(p_size[t])
          THEN /\ commands_failed' = commands_failed + 1
               /\ Return(t)
          ELSE /\ p_pc' = [p_pc EXCEPT ![t] = "publish"]
               /\ UNCHANGED <<pLocals, commands_failed>>
    /\ UNCHANGED <<pConn, out_messages, pending_publishes, cmds, pHist>>
    /\ UNCHANGED <<h_attempts, clients, p_size, failed_commands, otherThanPub>>

\* message_info = self.client.publish(topic, payload, qos=1, retain=False)
PPublishLive(t) ==
    /\ p_pc[t] = "publish"
    /\ LET mid == next_mid + 1
           rc == PublishRc(out_messages, client, link)
           m == Message(mid, p_cmd[t], CommandTopic(p_dev[t]), FALSE, client)
       IN /\ next_mid' = mid
          /\ out_messages' = Enqueue(out_messages, m)
          /\ p_info' = [p_info EXCEPT ![t] = [rc |-> rc, mid |-> mid]]
          /\ h_accepted' = IF rc = "SUCCESS" THEN h_accepted \cup {p_cmd[t]} ELSE h_accepted
          /\ h_msgs' = IF rc # "QUEUE_SIZE" THEN h_msgs \cup {m} ELSE h_msgs
    /\ p_pc' = [p_pc EXCEPT ![t] = "checkrc"]
    /\ UNCHANGED <<client, is_connected, link, pending_publishes, cmds, p_cmd, p_dev,
                   h_true, h_tracked, h_confirmed>>
    /\ UNCHANGED <<h_attempts, clients, p_size, commands_failed, failed_commands, otherThanPub>>

\* rc is MQTT_ERR_SUCCESS: the publish is entered in pending_publishes under its mid.
PTrack(t) ==
    /\ p_pc[t] = "checkrc"
    /\ PublishAccepted(p_info[t].rc)
    /\ pending_publishes' = Track(pending_publishes, p_info[t].mid, p_cmd[t])
    /\ h_tracked' = h_tracked \cup {p_cmd[t]}
    /\ p_pc' = [p_pc EXCEPT ![t] = "mirror"]
    /\ UNCHANGED <<pConn, out_messages, cmds, pLocals, h_true, h_accepted, h_confirmed, h_msgs>>
    /\ UNCHANGED <<h_attempts, clients, p_size, commands_failed, failed_commands, otherThanPub>>

\* rc is an error code: the failure is recorded and publish_command returns False.
PPublishRejected(t) ==
    /\ p_pc[t] = "checkrc"
    /\ ~PublishAccepted(p_info[t].rc)
    /\ commands_failed' = commands_failed + 1
    /\ failed_commands' = failed_commands + 1
    /\ Return(t)
    /\ UNCHANGED <<pConn, out_messages, pending_publishes, cmds, pHist>>
    /\ UNCHANGED <<h_attempts, clients, p_size, otherThanPub>>

\* self.client.publish(retained_topic, payload, qos=1, retain=True): the result
\* is not looked at, an exception is only logged.
PMirror(t) ==
    /\ p_pc[t] = "mirror"
    /\ LET mid == next_mid + 1
           rc == PublishRc(out_messages, client, link)
           m == Message(mid, p_cmd[t], LastTopic(CommandTopic(p_dev[t])), TRUE, client)
       IN /\ next_mid' = mid
          /\ out_messages' = Enqueue(out_messages, m)
          /\ h_msgs' = IF rc # "QUEUE_SIZE" THEN h_msgs \cup {m} ELSE h_msgs
    /\ p_pc' = [p_pc EXCEPT ![t] = "return"]
    /\ UNCHANGED <<client, is_connected, link, pending_publishes, cmds, pLocals,
                   h_true, h_accepted, h_tracked, h_confirmed>>
    /\ UNCHANGED <<h_attempts, clients, p_size, commands_failed, failed_commands, otherThanPub>>

\* self.commands_sent += 1; return True
PReturnTrue(t) ==
    /\ p_pc[t] = "return"
    /\ h_true' = h_true \cup {p_cmd[t]}
    /\ Return(t)
    /\ UNCHANGED <<pConn, out_messages, pending_publishes, cmds,
                   h_accepted, h_tracked, h_confirmed, h_msgs>>
    /\ UNCHANGED <<h_attempts, clients, p_size, commands_failed, failed_commands, otherThanPub>>

\* Network thread: the broker's PUBACK for m arrives and the client calls
\* _on_publish(client, userdata, m.mid).
NetPuback(m) ==
    /\ m \in out_messages
    /\ link
    /\ out_messages' = out_messages \ {m}
    /\ pending_publishes' = Pop(pending_publishes, m.mid)
    /\ h_confirmed' = IF m.retain THEN h_confirmed ELSE h_confirmed \cup {m.cmd}
    /\ UNCHANGED <<pConn, cmds, p_pc, pLocals, h_true, h_accepted, h_tracked, h_msgs>>
    /\ UNCHANGED <<h_attempts, clients, p_size, commands_failed, failed_commands, otherThanPub>>

\* The connection to the broker is lost.
NetDrop ==
    /\ client # 0
    /\ link
    /\ link' = FALSE
    /\ UNCHANGED <<client, is_connected, next_mid, out_messages, pending_publishes, cmds,
                   p_pc, pLocals, pHist>>
    /\ UNCHANGED <<h_attempts, clients, p_size, commands_failed, failed_commands, otherThanPub>>

\* Network thread: _on_disconnect
NetOnDisconnect ==
    /\ client # 0
    /\ ~link
    /\ is_connected
    /\ is_connected' = FALSE
    /\ UNCHANGED <<client, link, next_mid, out_messages, pending_publishes, cmds,
                   p_pc, pLocals, pHist>>
    /\ UNCHANGED <<h_attempts, clients, p_size, commands_failed, failed_commands, otherThanPub>>

\* Network thread: the client's loop reconnects and calls _on_connect with rc 0.
NetReconnect ==
    /\ client # 0
    /\ ~link
    /\ link' = TRUE
    /\ is_connected' = TRUE
    /\ UNCHANGED <<client, next_mid, out_messages, pending_publishes, cmds,
                   p_pc, pLocals, pHist>>
    /\ UNCHANGED <<h_attempts, clients, p_size, commands_failed, failed_commands, otherThanPub>>

\* disconnect(), called while no publish_command is running: under the
\* connection lock is_connected is cleared, the client's loop is stopped, the
\* client disconnects and self.client becomes None.  pending_publishes is not
\* read.  The publisher is not used afterwards.
PDisconnect ==
    /\ \A t \in PubThreads : p_pc[t] = "idle"
    /\ client # 0
    /\ is_connected' = FALSE
    /\ link' = FALSE
    /\ client' = 0
    /\ clients' = {IF c.client = client THEN [c EXCEPT !.loop = FALSE] ELSE c : c \in clients}
    /\ p_pc' = [t \in PubThreads |-> "closed"]
    /\ UNCHANGED <<next_mid, out_messages, pending_publishes, cmds, pLocals, pHist>>
    /\ UNCHANGED <<h_attempts, p_size, commands_failed, failed_commands, otherThanPub>>

NextPub ==
    \/ \E t \in PubThreads, d \in Devices, sz \in PayloadSizes : PBegin(t, d, sz)
    \/ \E t \in PubThreads : PConnectAlready(t)
    \/ \E t \in PubThreads : PConnectOk(t)
    \/ \E t \in PubThreads : PConnectFail(t)
    \/ \E t \in PubThreads : PBuild(t)
    \/ \E t \in PubThreads : PPublishLive(t)
    \/ \E t \in PubThreads : PTrack(t)
    \/ \E t \in PubThreads : PPublishRejected(t)
    \/ \E t \in PubThreads : PMirror(t)
    \/ \E t \in PubThreads : PReturnTrue(t)
    \/ \E m \in out_messages : NetPuback(m)
    \/ NetDrop
    \/ NetOnDisconnect
    \/ NetReconnect
    \/ PDisconnect

\* ------------------------- SpecCmd: command envelopes and their delivery
\* ESP32DeviceManager.send_command_to_device:
\* "message_id": f"cmd_{int(datetime.utcnow().timestamp() * 1000)}"
ManagerMessageId(ms) == <<"cmd", ms, 0, 0>>

\* QueueManager.send_to_queue:
\* 'message_id': f"backend_{int(time.time())}_{priority}_{attempt}"
QueueMessageId(ms, priority, attempt) == <<"backend", ms \div MsPerSecond, priority, attempt>>

\* EnhancedMQTTCommandPublisher.publish_command: 'message_id': str(uuid.uuid4()),
\* a value no other call draws.
PublisherMessageId(n) == <<"uuid", n, 0, 0>>

Envelope(n, by, id) == [seq |-> n, by |-> by, message_id |-> id]

\* The next envelope's number (an observation, not a field of the program).
NextSeq == Cardinality(issued) + 1

CmdIdle ==
    /\ c_ms = 0
    /\ issued = {}
    /\ m_state = "none"
    /\ m_link = FALSE
    /\ m_out = {}
    /\ b_queue = {}
    /\ d_online = TRUE
    /\ d_received = {}
    /\ h_offline_accepted = {}

\* The device holds a persistent session subscribed to its command topic at
\* QoS 1 and is connected; the manager is constructed (mqtt_client is None).
CmdInit ==
    /\ nodes = [d \in Devices |-> 0]
    /\ CmdIdle

mgrVars == <<m_state, m_link, m_out>>
devVars == <<b_queue, d_online, d_received>>

\* Time passes.
ClockAdvance(t) ==
    /\ t > c_ms
    /\ c_ms' = t
    /\ UNCHANGED <<issued, mgrVars, devVars, h_offline_accepted>>
    /\ UNCHANGED otherThanCmd

\* initialize / _connect_with_retry: an attempt connected, loop_start() ran.
MgrInitializeOk ==
    /\ m_state = "none"
    /\ m_state' = "started"
    /\ m_link' = TRUE
    /\ UNCHANGED <<c_ms, issued, m_out, devVars, h_offline_accepted>>
    /\ UNCHANGED otherThanCmd

\* initialize / _connect_with_retry: all attempts failed, "continuing without
\* MQTT": the client exists, its network loop was never started.
MgrInitializeFail ==
    /\ m_state = "none"
    /\ m_state' = "unstarted"
    /\ m_link' = FALSE
    /\ UNCHANGED <<c_ms, issued, m_out, devVars, h_offline_accepted>>
    /\ UNCHANGED otherThanCmd

\* _on_connect subscribes the manager's client to devices/+/data and
\* _on_message receives telemetry on it: the manager ingests while, and only
\* while, this client is connected.
IngestionUp == m_state = "started" /\ m_link

\* send_command_to_device before initialize: self.mqtt_client is None, the
\* publish raises, the except returns False.  The envelope was built already.
MgrSendNoClient ==
    /\ m_state = "none"
    /\ NextSeq <= MaxIssued
    /\ issued' = issued \cup {Envelope(NextSeq, "manager", ManagerMessageId(c_ms))}
    /\ UNCHANGED <<c_ms, mgrVars, devVars, h_offline_accepted>>
    /\ UNCHANGED otherThanCmd

\* send_command_to_device: the envelope is built and handed to
\* self.mqtt_client.publish(topic, payload, qos=1, retain=False); message_info
\* is not looked at and True is returned.
MgrSend ==
    /\ m_state # "none"
    /\ NextSeq <= MaxIssued
    /\ issued' = issued \cup {Envelope(NextSeq, "manager", ManagerMessageId(c_ms))}
    /\ m_out' = m_out \cup {NextSeq}
    /\ h_offline_accepted' =
          IF d_online THEN h_offline_accepted ELSE h_offline_accepted \cup {NextSeq}
    /\ UNCHANGED <<c_ms, m_state, m_link, devVars>>
    /\ UNCHANGED otherThanCmd

\* The manager's network loop sends a held publish; the broker acknowledges it
\* and queues it in the device's session.
MgrNetFlush(c) ==
    /\ c \in m_out
    /\ m_state = "started"
    /\ m_link
    /\ m_out' = m_out \ {c}
    /\ b_queue' = b_queue \cup {c}
    /\ UNCHANGED <<c_ms, issued, m_state, m_link, d_online, d_received, h_offline_accepted>>
    /\ UNCHANGED otherThanCmd

\* The manager's connection drops.
MgrLinkDrop ==
    /\ m_state = "started"
    /\ m_link
    /\ m_link' = FALSE
    /\ UNCHANGED <<c_ms, issued, m_state, m_out, devVars, h_offline_accepted>>
    /\ UNCHANGED otherThanCmd

\* The manager's network loop reconnects (_on_connect with rc 0).
MgrLinkUp ==
    /\ m_state = "started"
    /\ ~m_link
    /\ m_link' = TRUE
    /\ UNCHANGED <<c_ms, issued, m_state, m_out, devVars, h_offline_accepted>>
    /\ UNCHANGED otherThanCmd

\* The device goes offline; its session stays with the broker.
DevDisconnect ==
    /\ d_online
    /\ d_online' = FALSE
    /\ UNCHANGED <<c_ms, issued, mgrVars, b_queue, d_received, h_offline_accepted>>
    /\ UNCHANGED otherThanCmd

\* The device reconnects with clean_session=False.
DevReconnect ==
    /\ ~d_online
    /\ d_online' = TRUE
    /\ UNCHANGED <<c_ms, issued, mgrVars, b_queue, d_received, h_offline_accepted>>
    /\ UNCHANGED otherThanCmd

\* The broker delivers a queued command to the connected device.
BrokerDeliver(c) ==
    /\ c \in b_queue
    /\ d_online
    /\ b_queue' = b_queue \ {c}
    /\ d_received' = d_received \cup {c}
    /\ UNCHANGED <<c_ms, issued, mgrVars, d_online, h_offline_accepted>>
    /\ UNCHANGED otherThanCmd

\* QueueManager.send_to_queue: the publish of the given attempt goes through
\* (the attempts before it failed in ensure_connection).
QmSend(priority, attempt) ==
    /\ NextSeq <= MaxIssued
    /\ issued' = issued \cup {Envelope(NextSeq, "queue", QueueMessageId(c_ms, priority, attempt))}
    /\ UNCHANGED <<c_ms, mgrVars, devVars, h_offline_accepted>>
    /\ UNCHANGED otherThanCmd

\* EnhancedMQTTCommandPublisher.publish_command builds its envelope.
PubEnvelope ==
    /\ NextSeq <= MaxIssued
    /\ issued' = issued \cup {Envelope(NextSeq, "publisher", PublisherMessageId(NextSeq))}
    /\ UNCHANGED <<c_ms, mgrVars, devVars, h_offline_accepted>>
    /\ UNCHANGED otherThanCmd

NextCmd ==
    \/ \E t \in ClockValues : ClockAdvance(t)
    \/ MgrInitializeOk
    \/ MgrInitializeFail
    \/ MgrSendNoClient
    \/ MgrSend
    \/ \E c \in 1..MaxIssued : MgrNetFlush(c)
    \/ MgrLinkDrop
    \/ MgrLinkUp
    \/ DevDisconnect
    \/ DevReconnect
    \/ \E c \in 1..MaxIssued : BrokerDeliver(c)
    \/ \E priority \in Priorities, attempt \in 0..(SendAttempts - 1) : QmSend(priority, attempt)
    \/ PubEnvelope

\* ------------------------ SpecRmq: EnhancedRabbitMQClient as publisher
\* connect(): delay = min(self.reconnect_delay * (2 ** attempt), 60)
BackoffDelay(base, attempt) ==
    IF base * (2 ^ attempt) < MaxBackoff THEN base * (2 ^ attempt) ELSE MaxBackoff

\* connect(): "if attempt < self.max_reconnect_attempts - 1" sleeps and retries,
\* else the exception is raised.
AttemptsRemainNever(attempt) == FALSE

AttemptsRemain(attempt) == attempt < MaxReconnectAttempts - 1

\* ensure_connection / connect: the connection is in use as it is.
RmqUsable == r_is_connected /\ r_open

RmqIdle ==
    /\ r_pc = "idle"
    /\ r_attempt = 0
    /\ r_is_connected = FALSE
    /\ r_open = FALSE
    /\ r_reconnect_attempts = 0
    /\ r_delay = 0
    /\ r_calls = 0
    /\ r_result = "none"
    /\ r_failed = 0

RmqInit ==
    /\ nodes = [d \in Devices |-> 0]
    /\ RmqIdle

\* publish_command: self.ensure_connection() connects unless the connection is usable.
RBegin ==
    /\ r_pc = "idle"
    /\ r_calls < MaxRmqCalls
    /\ r_calls' = r_calls + 1
    /\ r_result' = "none"
    /\ r_attempt' = 0
    /\ r_pc' = IF RmqUsable THEN "publish" ELSE "connect"
    /\ UNCHANGED <<r_is_connected, r_open, r_reconnect_attempts, r_delay, r_failed>>
    /\ UNCHANGED otherThanRmq

\* connect(): the attempt succeeds.
RAttemptOk ==
    /\ r_pc = "connect"
    /\ r_is_connected' = TRUE
    /\ r_open' = TRUE
    /\ r_reconnect_attempts' = 0
    /\ r_pc' = "publish"
    /\ UNCHANGED <<r_attempt, r_delay, r_calls, r_result, r_failed>>
    /\ UNCHANGED otherThanRmq

\* connect(): the attempt fails and attempts remain: sleep the backoff delay, go on.
RAttemptFailRetry ==
    /\ r_pc = "connect"
    /\ AttemptsRemain(r_attempt)
    /\ r_reconnect_attempts' = r_attempt + 1
    /\ r_delay' = BackoffDelay(ReconnectDelay, r_attempt)
    /\ r_attempt' = r_attempt + 1
    /\ UNCHANGED <<r_pc, r_is_connected, r_open, r_calls, r_result, r_failed>>
    /\ UNCHANGED otherThanRmq

\* connect(): the last attempt fails: is_connected = False and the exception is
\* raised; publish_command's except appends to failed_messages and returns False.
RAttemptFailLast ==
    /\ r_pc = "connect"
    /\ ~AttemptsRemain(r_attempt)
    /\ r_reconnect_attempts' = r_attempt + 1
    /\ r_is_connected' = FALSE
    /\ r_failed' = r_failed + 1
    /\ r_result' = "false"
    /\ r_pc' = "idle"
    /\ UNCHANGED <<r_attempt, r_open, r_delay, r_calls>>
    /\ UNCHANGED otherThanRmq

\* publish_command: a basic_publish was confirmed (success_count > 0): True.
RPublishOk ==
    /\ r_pc = "publish"
    /\ r_open
    /\ r_result' = "true"
    /\ r_pc' = "idle"
    /\ UNCHANGED <<r_attempt, r_is_connected, r_open, r_reconnect_attempts, r_delay, r_calls,
                   r_failed>>
    /\ UNCHANGED otherThanRmq

\* publish_command: no basic_publish was confirmed: the command is appended to
\* failed_messages and False is returned.
RPublishFail ==
    /\ r_pc = "publish"
    /\ r_failed' = r_failed + 1
    /\ r_result' = "false"
    /\ r_pc' = "idle"
    /\ UNCHANGED <<r_attempt, r_is_connected, r_open, r_reconnect_attempts, r_delay, r_calls>>
    /\ UNCHANGED otherThanRmq

\* The broker or the network closes the connection; is_connected is not updated.
RConnLost ==
    /\ r_open
    /\ r_open' = FALSE
    /\ UNCHANGED <<r_pc, r_attempt, r_is_connected, r_reconnect_attempts, r_delay, r_calls,
                   r_result, r_failed>>
    /\ UNCHANGED otherThanRmq

NextRmq ==
    \/ RBegin
    \/ RAttemptOk
    \/ RAttemptFailRetry
    \/ RAttemptFailLast
    \/ RPublishOk
    \/ RPublishFail
    \/ RConnLost

\* ------------------- SpecWrk: the worker's broker connection and consumption
tracked == <<nodes, node_status, node_order, db_status>>
kHandler == <<k_settle, k_error_count, k_last>>

\* data = json.loads(body.decode('utf-8')): the value, or the exception raised.
Parse(body) ==
    CASE body = "object" -> "ok"
      [] body = "not_json" -> "JSONDecodeError"
      [] body = "not_utf8" -> "UnicodeDecodeError"

NoSettle == [how |-> "none", requeue |-> FALSE]
NoDelivery == [kind |-> "none", dev |-> "none", known |-> FALSE, body |-> "none", redelivered |-> FALSE,
               stored |-> FALSE, notified |-> FALSE, calls |-> 0, before |-> <<>>]

\* process_sensor_data_enhanced: basic_ack, or basic_nack(requeue=...).
\* "except json.JSONDecodeError" nacks without requeue; "except Exception" nacks
\* with requeue = not method.redelivered; a store that returned False nacks
\* without requeue.
Settlement(parsed, stored, redelivered) ==
    IF parsed = "JSONDecodeError" THEN [how |-> "nack", requeue |-> FALSE]
    ELSE IF parsed # "ok" THEN [how |-> "nack", requeue |-> ~redelivered]
    ELSE IF stored THEN [how |-> "ack", requeue |-> FALSE]
    ELSE [how |-> "nack", requeue |-> FALSE]

\* connect_rabbitmq: "if attempt < self.max_retries - 1" sleeps and retries,
\* else the exception is raised.
WorkerAttemptsRemain(attempt) == attempt < WorkerMaxRetries - 1

\* A variant in which a failed post propagates to the caller.
NotifyRaisesOnFailure(notified) == ~notified

\* broadcast_sensor_data_enhanced() and broadcast_status_change_enhanced()
\* make one requests.post(timeout=3) inside try/except Exception: a non-200
\* reply is logged, an exception is logged, nothing reaches the caller.
NotifyRaises(notified) == FALSE

WrkIdle ==
    /\ k_pc = "init"
    /\ k_origin = "start"
    /\ k_attempt = 0
    /\ k_retry_count = 0
    /\ k_open = FALSE
    /\ k_delivered = 0
    /\ k_settle = NoSettle
    /\ k_error_count = 0
    /\ k_last = NoDelivery

\* The database the worker starts against, as in LiveInit.
WrkInit ==
    /\ nodes \in [Devices -> {0, 1}]
    /\ \A d \in Devices \ LiveDevices : nodes[d] = 0
    /\ WrkIdle

\* start_consuming_enhanced: queue_name = self.connect_rabbitmq()
KStart ==
    /\ k_pc = "init"
    /\ k_pc' = "connect"
    /\ k_origin' = "start"
    /\ k_attempt' = 0
    /\ UNCHANGED <<k_retry_count, k_open, k_delivered, kHandler>>
    /\ UNCHANGED <<now, tracked, otherThanWrk>>

\* connect_rabbitmq: the attempt succeeds; the caller goes (back) to start_consuming().
KAttemptOk ==
    /\ k_pc = "connect"
    /\ k_open' = TRUE
    /\ k_pc' = "consume"
    /\ UNCHANGED <<k_origin, k_attempt, k_retry_count, k_delivered, kHandler>>
    /\ UNCHANGED <<now, tracked, otherThanWrk>>

\* connect_rabbitmq: the attempt fails and attempts remain.
KAttemptFailRetry ==
    /\ k_pc = "connect"
    /\ WorkerAttemptsRemain(k_attempt)
    /\ k_attempt' = k_attempt + 1
    /\ UNCHANGED <<k_pc, k_origin, k_retry_count, k_open, k_delivered, kHandler>>
    /\ UNCHANGED <<now, tracked, otherThanWrk>>

\* connect_rabbitmq: the last attempt fails and the exception is raised. Raised
\* from the first connect it leaves start_consuming_enhanced and main() exits;
\* raised from the reconnect it is logged and the loop calls start_consuming()
\* on the channel it has.
KAttemptFailLast ==
    /\ k_pc = "connect"
    /\ ~WorkerAttemptsRemain(k_attempt)
    /\ k_pc' = IF k_origin = "start" THEN "stopped" ELSE "consume"
    /\ UNCHANGED <<k_origin, k_attempt, k_retry_count, k_open, k_delivered, kHandler>>
    /\ UNCHANGED <<now, tracked, otherThanWrk>>

\* start_consuming(): a telemetry delivery of device d is handed to
\* process_sensor_data_enhanced, which parses it, stores it, updates the tracked
\* status (update_node_status_enhanced, run here without the monitor thread
\* beside it) and settles the delivery.  stored: what store_sensor_data_enhanced
\* returns, False also when the write raises.
KDeliver(d, body, redelivered, stored, notified) ==
    LET outcome == IF Parse(body) = "ok" /\ stored /\ NotifyRaises(notified)
                   THEN "Exception" ELSE Parse(body)
    IN
    /\ k_pc = "consume"
    /\ k_open
    /\ k_delivered < MaxDelivered
    /\ stored => ForeignKeyOk(nodes, d)
    /\ k_delivered' = k_delivered + 1
    /\ k_last' = [kind |-> "telemetry", dev |-> d, known |-> ForeignKeyOk(nodes, d),
                  body |-> body, redelivered |-> redelivered,
                  stored |-> stored, notified |-> notified,
                  calls |-> IF Parse(body) = "ok" /\ stored
                               /\ CameOnline(PreviousStatus(node_status, d))
                            THEN 1 ELSE 0,
                  before |-> node_status]
    /\ k_settle' = Settlement(outcome, stored, redelivered)
    /\ k_error_count' = IF outcome = "ok" /\ stored THEN k_error_count
                                                    ELSE k_error_count + 1
    /\ IF Parse(body) = "ok" /\ stored
          THEN /\ node_status' = [node_status EXCEPT ![d] = Entry("online", now, FALSE)]
               /\ node_order' = IF node_status[d].status = "absent"
                                 THEN Append(node_order, d) ELSE node_order
               /\ nodes' = UpsertNode(nodes, d)
               /\ db_status' = [db_status EXCEPT ![d] = "online"]
          ELSE UNCHANGED tracked
    /\ UNCHANGED <<k_pc, k_origin, k_attempt, k_retry_count, k_open>>
    /\ UNCHANGED <<now, otherThanWrk>>

\* The monitor thread's clock: time passes between sweeps
\* (time.sleep(5) at the end of each round of status_monitor).  Only the time
\* that a sweep can observe is followed: the time that passes while the worker
\* consumes and some device is tracked online.
KTime ==
    /\ k_pc = "consume"
    /\ \E d \in LiveDevices : node_status[d].status = "online"
    /\ now < MaxTicks * SweepInterval
    /\ now' = now + SweepInterval
    /\ UNCHANGED <<wrkVars, tracked, otherThanWrk>>

\* check_offline_nodes_enhanced() for one stale online device: the tracked
\* status becomes 'offline', update_node_status_offline_enhanced() writes the
\* record (a failure is rolled back and logged there), then
\* broadcast_status_change_enhanced() posts once, whatever the post returns.
KSweep(d, persisted, notified) ==
    /\ k_pc = "consume"
    /\ ShouldMarkOffline(node_status[d], now)
    /\ node_status' = [node_status EXCEPT ![d].status = "offline"]
    /\ db_status' = IF persisted THEN UpdateStatus(db_status, nodes, d, "offline")
                                  ELSE db_status
    /\ k_last' = [kind |-> "sweep", dev |-> d, known |-> ForeignKeyOk(nodes, d),
                  body |-> "none", redelivered |-> FALSE,
                  stored |-> persisted, notified |-> notified, calls |-> 1,
                  before |-> node_status]
    /\ UNCHANGED <<nodes, node_order, now>>
    /\ UNCHANGED <<k_pc, k_origin, k_attempt, k_retry_count, k_open, k_delivered,
                   k_settle, k_error_count>>
    /\ UNCHANGED otherThanWrk

\* start_consuming() raises (the connection dropped, or the channel is closed):
\* retry_count += 1; below max_retries the worker sleeps and reconnects,
\* else it raises and main() exits.
KConsumeError ==
    /\ k_pc = "consume"
    /\ k_retry_count' = k_retry_count + 1
    /\ k_open' = FALSE
    /\ IF k_retry_count + 1 < ConsumeMaxRetries
          THEN /\ k_pc' = "connect"
               /\ k_origin' = "reconnect"
               /\ k_attempt' = 0
          ELSE /\ k_pc' = "stopped"
               /\ UNCHANGED <<k_origin, k_attempt>>
    /\ UNCHANGED <<k_delivered, kHandler>>
    /\ UNCHANGED <<now, tracked, otherThanWrk>>

NextWrk ==
    \/ KStart
    \/ KAttemptOk
    \/ KAttemptFailRetry
    \/ KAttemptFailLast
    \/ \E d \in LiveDevices, body \in Bodies, redelivered \in BOOLEAN,
          stored \in BOOLEAN, notified \in BOOLEAN :
          KDeliver(d, body, redelivered, stored, notified)
    \/ KConsumeError
    \/ KTime
    \/ \E d \in LiveDevices, persisted \in BOOLEAN, notified \in BOOLEAN :
          KSweep(d, persisted, notified)

\* --------------- SpecBc: broadcast_command_to_all of the device manager
BcIdle ==
    /\ bc_pc = "idle"
    /\ bc_set = {}
    /\ bc_used = 0
    /\ bc_rest = {}
    /\ bc_dev = NoDev
    /\ bc_success = 0
    /\ bc_result = 0
    /\ bc_total = 0
    /\ h_bc_start = {}
    /\ h_bc_attempted = {}
    /\ h_bc_unpublished = {}

\* The devices the manager has seen connect so far.
BcInit ==
    /\ nodes = [d \in Devices |-> 0]
    /\ bc_set \in SUBSET Devices
    /\ bc_pc = "idle" /\ bc_used = 0 /\ bc_rest = {} /\ bc_dev = NoDev
    /\ bc_success = 0 /\ bc_result = 0 /\ bc_total = 0
    /\ h_bc_start = {} /\ h_bc_attempted = {} /\ h_bc_unpublished = {}

\* broadcast_command_to_all: success_count = 0; for device_id in self.connected_devices
\* creates the set iterator, which remembers the size of the set.
BcBegin ==
    /\ bc_pc = "idle"
    /\ bc_pc' = "iter"
    /\ bc_used' = Cardinality(bc_set)
    /\ bc_rest' = bc_set
    /\ bc_success' = 0
    /\ h_bc_start' = bc_set
    /\ UNCHANGED <<bc_set, bc_dev, bc_result, bc_total, h_bc_attempted, h_bc_unpublished>>
    /\ UNCHANGED otherThanBc

\* The for statement asks the iterator for the next device.  A set whose size
\* changed since the iteration began raises RuntimeError, which the except
\* clause answers with return 0; an exhausted iterator ends the loop and
\* success_count is returned.
BcNext ==
    /\ bc_pc = "iter"
    /\ IF Cardinality(bc_set) # bc_used
          THEN /\ bc_result' = 0
               /\ bc_pc' = "done"
               /\ UNCHANGED <<bc_rest, bc_dev>>
          ELSE IF bc_rest = {}
          THEN /\ bc_result' = bc_success
               /\ bc_pc' = "done"
               /\ UNCHANGED <<bc_rest, bc_dev>>
          ELSE /\ \E d \in bc_rest : bc_dev' = d /\ bc_rest' = bc_rest \ {d}
               /\ bc_pc' = "send"
               /\ UNCHANGED bc_result
    /\ UNCHANGED <<bc_set, bc_used, bc_success, bc_total, h_bc_start, h_bc_attempted,
                   h_bc_unpublished>>
    /\ UNCHANGED otherThanBc

\* if await self.send_command_to_device(device_id, command): success_count += 1.
\* send_command_to_device returns True when mqtt_client.publish returned, whatever
\* its return code ("ok" or "rc_error"), and False when it raised.
BcSend(outcome) ==
    /\ bc_pc = "send"
    /\ bc_success' = IF outcome = "raise" THEN bc_success ELSE bc_success + 1
    /\ h_bc_attempted' = h_bc_attempted \cup {bc_dev}
    /\ h_bc_unpublished' = IF outcome = "ok" THEN h_bc_unpublished
                                             ELSE h_bc_unpublished \cup {bc_dev}
    /\ bc_dev' = NoDev
    /\ bc_pc' = "iter"
    /\ UNCHANGED <<bc_set, bc_used, bc_rest, bc_result, bc_total, h_bc_start>>
    /\ UNCHANGED otherThanBc

\* broadcast_command_to_all_esp32: connected_count = len(get_connected_devices())
\* is read after the broadcast returned, and the answer is sent.
BcReply ==
    /\ bc_pc = "done"
    /\ bc_total' = Cardinality(bc_set)
    /\ bc_pc' = "replied"
    /\ UNCHANGED <<bc_set, bc_used, bc_rest, bc_dev, bc_success, bc_result, h_bc_start,
                   h_bc_attempted, h_bc_unpublished>>
    /\ UNCHANGED otherThanBc

\* MQTT callback thread: _process_device_message_sync sees a device that is not in
\* connected_devices; _auto_register_device_sync adds it.
BcDeviceSeen(d) ==
    /\ d \notin bc_set
    /\ bc_set' = bc_set \cup {d}
    /\ UNCHANGED <<bc_pc, bc_used, bc_rest, bc_dev, bc_success, bc_result, bc_total,
                   h_bc_start, h_bc_attempted, h_bc_unpublished>>
    /\ UNCHANGED otherThanBc

NextBc ==
    \/ BcBegin
    \/ BcNext
    \/ \E outcome \in {"ok", "rc_error", "raise"} : BcSend(outcome)
    \/ BcReply
    \/ \E d \in Devices : BcDeviceSeen(d)

\* ------------- SpecEnv: the command envelope, serialized and parsed back
\* A dict is a set of <<key, value>> pairs with one pair per key.
Text(s) == <<"str", s>>
Num(n) == <<"int", n>>

Keys(dict) == {p[1] : p \in dict}

\* {**command, k1: v1, ...}: the keys written later replace the command's.
Merge(command, meta) == meta \cup {p \in command : p[1] \notin Keys(meta)}

\* send_command_to_device: the metadata put after **command.
ManagerMetadataNoSource(ms) ==
    {<<"timestamp", Num(ms)>>, <<"cmd_timestamp", Num(ms \div MsPerSecond)>>,
     <<"message_id", ManagerMessageId(ms)>>}

ManagerMetadata(ms) ==
    {<<"timestamp", Num(ms)>>, <<"cmd_timestamp", Num(ms \div MsPerSecond)>>,
     <<"message_id", ManagerMessageId(ms)>>, <<"source", Text("backend_api")>>}

\* publish_command: the metadata put after **command.
PublisherMetadata(u, d, ms) ==
    {<<"message_id", PublisherMessageId(u)>>, <<"timestamp", Num(ms)>>,
     <<"cmd_timestamp", Num(ms \div MsPerSecond)>>, <<"node_id", Text(d)>>,
     <<"priority", Num(5)>>, <<"source", Text("rnr_backend_api")>>, <<"retry_count", Num(0)>>}

\* json.dumps: every member becomes "key": text-of-value.
Dumps(dict) == {<<p[1], <<"json", p[2]>>>> : p \in dict}

\* json.loads of such a text.
Loads(text) == {<<p[1], p[2][2]>> : p \in text}

\* send_node_action: command = {"action": action.action}; url is added if it is
\* truthy, angle and value if they are not None.  "" stands for None, "empty"
\* for the empty string.
RouteCommand(action, url, angle, value) ==
    {<<"action", Text(action)>>}
        \cup (IF url \notin {"", "empty"} THEN {<<"url", Text(url)>>} ELSE {})
        \cup (IF angle # "" THEN {<<"angle", Text(angle)>>} ELSE {})
        \cup (IF value # "" THEN {<<"value", Text(value)>>} ELSE {})

\* The dicts a caller of the broadcast and servo routes or of publish_command
\* hands over: an action and fields of its own.
DirectCommands ==
    {{<<"action", Text(a)>>} \cup x \cup y :
        a \in {"REBOOT", "SERVO"},
        x \in {{}, {<<"angle", Text("90")>>}},
        y \in {{}, {<<"source", Text("dashboard")>>}, {<<"priority", Text("high")>>}}}

EnvIdle ==
    /\ e_pc = "idle"
    /\ e_via = "none"
    /\ e_command = {}
    /\ e_wire = {}
    /\ e_parsed = {}
    /\ e_assigned = <<>>
    /\ h_e_action = ""

EnvInit ==
    /\ nodes = [d \in Devices |-> 0]
    /\ EnvIdle

\* POST /nodes/{node_id}/actions
ERoute(action, url, angle, value) ==
    /\ e_pc = "idle"
    /\ e_via' = "route"
    /\ e_command' = RouteCommand(action, url, angle, value)
    /\ h_e_action' = action
    /\ e_pc' = "send"
    /\ UNCHANGED <<e_wire, e_parsed, e_assigned>>
    /\ UNCHANGED otherThanEnv

\* A caller that hands over its own dict.
EDirect(command) ==
    /\ e_pc = "idle"
    /\ e_via' = "direct"
    /\ e_command' = command
    /\ h_e_action' = (CHOOSE p \in command : p[1] = "action")[2][2]
    /\ e_pc' = "send"
    /\ UNCHANGED <<e_wire, e_parsed, e_assigned>>
    /\ UNCHANGED otherThanEnv

\* send_command_to_device: enhanced_command = {**command, ...};
\* publish(command_topic, json.dumps(enhanced_command), ...)
ESendManager(ms) ==
    /\ e_pc = "send"
    /\ e_wire' = Dumps(Merge(e_command, ManagerMetadata(ms)))
    /\ e_assigned' = ManagerMessageId(ms)
    /\ e_pc' = "wire"
    /\ UNCHANGED <<e_via, e_command, e_parsed, h_e_action>>
    /\ UNCHANGED otherThanEnv

\* publish_command: enhanced_command = {**command, ...}; command_json = json.dumps(...)
ESendPublisher(u, d, ms) ==
    /\ e_pc = "send"
    /\ e_via = "direct"
    /\ e_wire' = Dumps(Merge(e_command, PublisherMetadata(u, d, ms)))
    /\ e_assigned' = PublisherMessageId(u)
    /\ e_pc' = "wire"
    /\ UNCHANGED <<e_via, e_command, e_parsed, h_e_action>>
    /\ UNCHANGED otherThanEnv

\* The subscriber on devices/{id}/commands parses the payload.
EParse ==
    /\ e_pc = "wire"
    /\ e_parsed' = Loads(e_wire)
    /\ e_pc' = "parsed"
    /\ UNCHANGED <<e_via, e_command, e_wire, e_assigned, h_e_action>>
    /\ UNCHANGED otherThanEnv

NextEnv ==
    \/ \E action \in {"REBOOT", "SERVO"}, url \in {"", "empty", "http://fw"},
          angle \in {"", "0", "90"}, value \in {"", "on"} : ERoute(action, url, angle, value)
    \/ \E command \in DirectCommands : EDirect(command)
    \/ \E ms \in ClockValues : ESendManager(ms)
    \/ \E u \in Uuids, d \in Devices, ms \in ClockValues : ESendPublisher(u, d, ms)
    \/ EParse

\* ------------------- SpecDlv: a message and the consumer callback that settles it
Consumers == {"worker", "client", "queue"}
Results == {"true", "false", "raise"}

Ack == <<[how |-> "ack", requeue |-> FALSE]>>
Nack(requeue) == <<[how |-> "nack", requeue |-> requeue]>>

\* A variant of the worker's callback that returns without settling when no
\* node id can be extracted.
WorkerSettlesSilentReturn(body, has_id, stored, redelivered) ==
    IF Parse(body) = "ok" /\ ~has_id THEN <<>>
    ELSE <<Settlement(Parse(body), stored, redelivered)>>

\* process_sensor_data_enhanced: the basic_ack / basic_nack calls of one run.
\* No node id: nack without requeue and return; else as Settlement.
WorkerSettles(body, has_id, stored, redelivered) ==
    IF Parse(body) = "ok" /\ ~has_id THEN Nack(FALSE)
    ELSE <<Settlement(Parse(body), stored, redelivered)>>

\* consume_sensor_data.enhanced_callback: json.loads(body.decode()); no node id:
\* nack without requeue; callback(node_id, data), then basic_ack;
\* JSONDecodeError: nack without requeue; any other exception: nack with
\* requeue = (method.redelivered == False).
ClientSettles(body, has_id, result, redelivered) ==
    IF Parse(body) = "JSONDecodeError" THEN Nack(FALSE)
    ELSE IF Parse(body) # "ok" THEN Nack(~redelivered)
    ELSE IF ~has_id THEN Nack(FALSE)
    ELSE IF result = "raise" THEN Nack(~redelivered)
    ELSE Ack

\* consume_queue.wrapper with auto_ack off: result = callback(data); a true
\* result: basic_ack; a false one: basic_nack(requeue=True); JSONDecodeError:
\* nack without requeue; any other exception: basic_nack(requeue=True).
QueueSettles(body, result) ==
    IF Parse(body) = "JSONDecodeError" THEN Nack(FALSE)
    ELSE IF Parse(body) # "ok" THEN Nack(TRUE)
    ELSE IF result = "true" THEN Ack
    ELSE Nack(TRUE)

DlvIdle ==
    /\ q_consumer = "none" /\ q_body = "none" /\ q_has_id = FALSE /\ q_pc = "empty"
    /\ q_redelivered = FALSE /\ q_deliveries = 0 /\ q_settles = <<>> /\ q_published = 0

DlvInit ==
    /\ nodes = [d \in Devices |-> 0]
    /\ q_consumer \in Consumers
    /\ q_body = "none" /\ q_has_id = FALSE /\ q_pc = "empty"
    /\ q_redelivered = FALSE /\ q_deliveries = 0 /\ q_settles = <<>> /\ q_published = 0

\* A message arrives in the queue once the one before is settled for good.
QPublish(body, has_id) ==
    /\ q_pc \in {"empty", "settled"}
    /\ q_published < MaxPublished
    /\ q_published' = q_published + 1
    /\ q_body' = body
    /\ q_has_id' = has_id
    /\ q_pc' = "queued"
    /\ q_redelivered' = FALSE
    /\ q_deliveries' = 0
    /\ q_settles' = <<>>
    /\ UNCHANGED <<q_consumer, otherThanDlv>>

\* The broker delivers the message and the consumer's callback runs.  stored:
\* what store_sensor_data_enhanced returns; result: what the processing
\* callback does.  A message rejected with requeue goes back to the queue and
\* comes again with redelivered set; one never settled stays unacknowledged.
QDeliver(stored, result) ==
    /\ q_pc = "queued"
    /\ q_deliveries < MaxDeliveries
    /\ LET settles == CASE q_consumer = "worker" ->
                               WorkerSettles(q_body, q_has_id, stored, q_redelivered)
                         [] q_consumer = "client" ->
                               ClientSettles(q_body, q_has_id, result, q_redelivered)
                         [] q_consumer = "queue" -> QueueSettles(q_body, result)
       IN /\ q_settles' = settles
          /\ q_pc' = IF settles = <<>> THEN "unacked"
                     ELSE IF settles[1].how = "nack" /\ settles[1].requeue THEN "queued"
                     ELSE "settled"
    /\ q_deliveries' = q_deliveries + 1
    /\ q_redelivered' = TRUE
    /\ UNCHANGED <<q_consumer, q_body, q_has_id, q_published, otherThanDlv>>

NextDlv ==
    \/ \E body \in Bodies, has_id \in BOOLEAN : QPublish(body, has_id)
    \/ \E stored \in BOOLEAN, result \in Results : QDeliver(stored, result)

\* ---------- SpecCon: one EnhancedRabbitMQClient used by several threads
\* ensure_connection(): connect() is called, and connection_lock is needed,
\* unless the flag and the connection both say connected.
NeedsConnect == ~x_is_connected \/ ~x_open

ConIdle ==
    /\ x_lock = "free" /\ x_is_connected = FALSE /\ x_open = FALSE /\ x_consuming = FALSE
    /\ x_cons = "exited" /\ x_pub = "idle" /\ x_close = "idle" /\ x_message_count = 0

\* consume_sensor_data() has connected, set self.consuming and started the thread.
ConInit ==
    /\ nodes = [d \in Devices |-> 0]
    /\ x_lock = "free" /\ x_is_connected = TRUE /\ x_open = TRUE /\ x_consuming = TRUE
    /\ x_cons = "loop" /\ x_pub = "idle" /\ x_close = "idle" /\ x_message_count = 0

\* enhanced_consume_loop: while self.consuming
XConsLoop ==
    /\ x_cons = "loop"
    /\ x_cons' = IF x_consuming THEN "test" ELSE "exited"
    /\ UNCHANGED <<x_lock, x_is_connected, x_open, x_consuming, x_pub, x_close, x_message_count, otherThanCon>>

\* enhanced_consume_loop: if self.is_connected and self.connection and not
\* self.connection.is_closed: process_data_events is entered, else the else branch.
XConsTest ==
    /\ x_cons = "test"
    /\ x_cons' = IF NeedsConnect THEN "reconnect" ELSE "process"
    /\ UNCHANGED <<x_lock, x_is_connected, x_open, x_consuming, x_pub, x_close, x_message_count, otherThanCon>>

\* self.connection.process_data_events(time_limit=1) returns, or raises because
\* the connection was closed under it (the except clause is entered).
XConsProcess ==
    /\ x_cons = "process"
    /\ x_cons' = IF x_open THEN "loop" ELSE "recover"
    /\ UNCHANGED <<x_lock, x_is_connected, x_open, x_consuming, x_pub, x_close, x_message_count, otherThanCon>>

\* self.ensure_connection() in the else branch ("reconnect") or in the except
\* clause ("recover"), then time.sleep.  connect() runs under connection_lock;
\* when it raises in the else branch the except clause is entered, when it
\* raises in the except clause the thread ends.
XConsEnsure(ok) ==
    /\ x_cons \in {"reconnect", "recover"}
    /\ IF NeedsConnect
          THEN /\ x_lock = "free"
               /\ x_is_connected' = ok
               /\ x_open' = ok
               /\ x_cons' = IF ok THEN "loop"
                             ELSE IF x_cons = "reconnect" THEN "recover" ELSE "exited"
          ELSE /\ ok
               /\ x_cons' = "loop"
               /\ UNCHANGED <<x_is_connected, x_open>>
    /\ UNCHANGED <<x_lock, x_consuming, x_pub, x_close, x_message_count, otherThanCon>>

\* publish_command: self.ensure_connection(), then self.channel.basic_publish
\* is entered; a failed connect() is caught and False returned.
XPublishBegin(ok) ==
    /\ x_pub = "idle"
    /\ x_close = "idle"
    /\ x_message_count < MaxRmqCalls
    /\ IF NeedsConnect
          THEN /\ x_lock = "free"
               /\ x_is_connected' = ok
               /\ x_open' = ok
               /\ x_pub' = IF ok THEN "publish" ELSE "idle"
          ELSE /\ ok
               /\ x_pub' = "publish"
               /\ UNCHANGED <<x_is_connected, x_open>>
    /\ UNCHANGED <<x_lock, x_consuming, x_cons, x_close, x_message_count, otherThanCon>>

\* basic_publish returns or raises; when a publish was confirmed
\* self.message_count += 1; publish_command returns.
XPublishEnd(confirmed) ==
    /\ x_pub = "publish"
    /\ x_pub' = "idle"
    /\ x_message_count' = IF confirmed THEN x_message_count + 1 ELSE x_message_count
    /\ UNCHANGED <<x_lock, x_is_connected, x_open, x_consuming, x_cons, x_close, otherThanCon>>

\* The broker or the network closes the connection; the flag is not told.
XDrop ==
    /\ x_open
    /\ x_close = "idle"
    /\ x_open' = FALSE
    /\ UNCHANGED <<x_lock, x_is_connected, x_consuming, x_cons, x_pub, x_close, x_message_count, otherThanCon>>

\* disconnect(): with self.connection_lock: self.consuming = False;
\* self.is_connected = False; then consumer_thread.join(timeout=10).
XDisconnectBegin ==
    /\ x_close = "idle"
    /\ x_lock = "free"
    /\ x_lock' = "closer"
    /\ x_consuming' = FALSE
    /\ x_is_connected' = FALSE
    /\ x_close' = "join"
    /\ UNCHANGED <<x_open, x_cons, x_pub, x_message_count, otherThanCon>>

\* disconnect(): the join is over, because the thread ended or because it
\* waited 10 s for a thread that is blocked on connection_lock; channel and
\* connection are closed, the lock is released, disconnect() returns.
XDisconnectEnd ==
    /\ x_close = "join"
    /\ x_cons = "exited" \/ (x_cons \in {"reconnect", "recover"} /\ NeedsConnect)
    /\ x_open' = FALSE
    /\ x_lock' = "free"
    /\ x_close' = "closed"
    /\ UNCHANGED <<x_is_connected, x_consuming, x_cons, x_pub, x_message_count, otherThanCon>>

NextCon ==
    \/ XConsLoop
    \/ XConsTest
    \/ XConsProcess
    \/ \E ok \in BOOLEAN : XConsEnsure(ok)
    \/ \E ok \in BOOLEAN : XPublishBegin(ok)
    \/ \E confirmed \in BOOLEAN : XPublishEnd(confirmed)
    \/ XDrop
    \/ XDisconnectBegin
    \/ XDisconnectEnd

\* ---------------- SpecBko: the retry delays of the three connect loops
ConnectLoops == {"client", "worker", "manager"}

\* The sleep after the failed attempt number attempt (from 0) of a loop:
\* EnhancedRabbitMQClient.connect and connect_rabbitmq sleep
\* min(delay * (2 ** attempt), 60); _connect_with_retry sleeps
\* self.retry_delay every time.
RetryDelay(kind, base, attempt) ==
    IF kind = "manager" THEN base ELSE BackoffDelay(base, attempt)

BkoIdle ==
    /\ y_kind = "none" /\ y_base = 0 /\ y_max = 0 /\ y_pc = "failed"
    /\ y_attempt = 0 /\ y_delay = 0 /\ y_calls = 0

\* The first call of the loop begins, with the settings of its class.
BkoInit ==
    /\ nodes = [d \in Devices |-> 0]
    /\ y_kind \in ConnectLoops
    /\ y_base \in CASE y_kind = "client" -> {ReconnectDelay}
                    [] y_kind = "worker" -> {WorkerRetryDelay}
                    [] y_kind = "manager" -> ManagerRetryDelays
    /\ y_max = CASE y_kind = "client" -> MaxReconnectAttempts
                  [] y_kind = "worker" -> WorkerMaxRetries
                  [] y_kind = "manager" -> ManagerMaxRetries
    /\ y_pc = "try" /\ y_attempt = 0 /\ y_delay = 0 /\ y_calls = 1

\* The attempt connects: the loop returns.
YAttemptOk ==
    /\ y_pc = "try"
    /\ y_pc' = "connected"
    /\ UNCHANGED <<y_kind, y_base, y_max, y_attempt, y_delay, y_calls, otherThanBko>>

\* The attempt fails: the loop sleeps and retries unless it was the last one.
YAttemptFail ==
    /\ y_pc = "try"
    /\ IF y_attempt < y_max - 1
          THEN /\ y_delay' = RetryDelay(y_kind, y_base, y_attempt)
               /\ y_pc' = "sleep"
          ELSE /\ y_pc' = "failed"
               /\ UNCHANGED y_delay
    /\ UNCHANGED <<y_kind, y_base, y_max, y_attempt, y_calls, otherThanBko>>

\* The sleep is over: the next attempt.
YWake ==
    /\ y_pc = "sleep"
    /\ y_pc' = "try"
    /\ y_attempt' = y_attempt + 1
    /\ UNCHANGED <<y_kind, y_base, y_max, y_delay, y_calls, otherThanBko>>

\* The connection is lost, or the caller tries again after a failure: the loop
\* is called again and counts from its first attempt.
YCallAgain ==
    /\ y_pc \in {"connected", "failed"}
    /\ y_calls < MaxConnectCalls
    /\ y_calls' = y_calls + 1
    /\ y_pc' = "try"
    /\ y_attempt' = 0
    /\ y_delay' = 0
    /\ UNCHANGED <<y_kind, y_base, y_max, otherThanBko>>

NextBko ==
    \/ YAttemptOk
    \/ YAttemptFail
    \/ YWake
    \/ YCallAgain

\* ------- SpecMir: the retained mirror under concurrent publish_command calls
\* The client is connected and accepts every publish (rc is MQTT_ERR_SUCCESS);
\* the broker takes the publishes of the one client in the order of the calls.
MirIdle ==
    /\ z_pc = [t \in MirThreads |-> "idle"]
    /\ z_dev = [t \in MirThreads |-> NoDev]
    /\ z_cmd = [t \in MirThreads |-> 0]
    /\ z_live = [d \in Devices |-> 0]
    /\ z_retained = [d \in Devices |-> 0]
    /\ z_issued = 0

MirInit ==
    /\ nodes = [d \in Devices |-> 0]
    /\ MirIdle

\* publish_command(node_id, command): the envelope is built and serialized.
ZBegin(t, d) ==
    /\ z_pc[t] = "idle"
    /\ z_issued < MaxMirCmds
    /\ z_issued' = z_issued + 1
    /\ z_dev' = [z_dev EXCEPT ![t] = d]
    /\ z_cmd' = [z_cmd EXCEPT ![t] = z_issued + 1]
    /\ z_pc' = [z_pc EXCEPT ![t] = "live"]
    /\ UNCHANGED <<z_live, z_retained, otherThanMir>>

\* self.client.publish(topic, payload, qos=1, retain=False)
ZLive(t) ==
    /\ z_pc[t] = "live"
    /\ z_live' = [z_live EXCEPT ![z_dev[t]] = z_cmd[t]]
    /\ z_pc' = [z_pc EXCEPT ![t] = "mirror"]
    /\ UNCHANGED <<z_dev, z_cmd, z_retained, z_issued, otherThanMir>>

\* self.client.publish(f"{topic}/last", payload, qos=1, retain=True); return True
ZMirror(t) ==
    /\ z_pc[t] = "mirror"
    /\ z_retained' = [z_retained EXCEPT ![z_dev[t]] = z_cmd[t]]
    /\ z_pc' = [z_pc EXCEPT ![t] = "idle"]
    /\ UNCHANGED <<z_dev, z_cmd, z_live, z_issued, otherThanMir>>

NextMir ==
    \/ \E t \in MirThreads, d \in Devices : ZBegin(t, d)
    \/ \E t \in MirThreads : ZLive(t)
    \/ \E t \in MirThreads : ZMirror(t)

\* ----------------- SpecDel: registration together with device deletion
\* Deletions are followed while no processor is in the middle of a message.
\* NodeService.delete_node (DELETE /nodes/{node_id}): the row is deleted and
\* committed; the device manager is not told.
DeleteNode(d) ==
    /\ \A p \in RegProcs : reg_pc[p] = "idle"
    /\ nodes[d] > 0
    /\ nodes' = [nodes EXCEPT ![d] = 0]
    /\ UNCHANGED <<regVars, otherThanReg>>

\* delete_esp32_device (DELETE /esp32/device/{device_id}), served by the
\* process of manager p: the row is deleted and committed, then the id is
\* removed from that manager's connected_devices.
DeleteEsp32Device(p, d) ==
    /\ reg_role[p] = "api"
    /\ \A q \in RegProcs : reg_pc[q] = "idle"
    /\ nodes[d] > 0
    /\ nodes' = [nodes EXCEPT ![d] = 0]
    /\ connected_devices' = [connected_devices EXCEPT ![p] = @ \ {d}]
    /\ UNCHANGED <<reg_role, reg_pc, reg_dev, reg_outcome, reg_msgs, otherThanReg>>

NextDel ==
    \/ NextReg
    \/ \E d \in Devices : DeleteNode(d)
    \/ \E p \in RegProcs, d \in Devices : DeleteEsp32Device(p, d)

\* ------------------------------------------------------------- claims
Fresh(d) == now - node_status[d].last_seen < OfflineThreshold

\* The monitor has marked d offline and not yet emitted the event for it.
Demoting(d) == s_pc \in {"persist", "emit"} /\ Head(s_todo) = d

\* The entry of d was last written by telemetry (not by a status message).
ByTelemetry(d) == node_status[d].status # "absent" /\ ~node_status[d].explicit

C2_OnlineWhileSpaced ==
    \A d \in LiveDevices :
        (ByTelemetry(d) /\ h_spaced[d] /\ Fresh(d))
            => (node_status[d].status = "online" /\ h_off_events[d] = 0 /\ ~Demoting(d))

\* The demotions of a device since its last message have emitted at most one
\* offline event, and exactly one once the monitor has finished the transition.
OneOfflineEvent ==
    \A d \in LiveDevices :
        /\ h_off_events[d] <= 1
        /\ (ByTelemetry(d) /\ node_status[d].status = "offline" /\ ~Demoting(d))
              => h_off_events[d] = 1

\* A device tracked online whose last_seen is more than the threshold old is
\* demoted (or heard from again).
SilentDeviceDemoted ==
    \A d \in LiveDevices :
        (node_status[d].status = "online" /\ IsStale(now, node_status[d].last_seen))
            ~> (node_status[d].status # "online" \/ ~IsStale(now, node_status[d].last_seen))

\* C3: a device tracked online that stays silent for more than the threshold
\* is demoted by the monitor, and the demotions since its last message emit
\* exactly one offline event, however often the monitor runs afterwards.
C3_OneOfflineEventPerSilence == []OneOfflineEvent /\ SilentDeviceDemoted

\* The device was demoted with one event, the monitor has finished that check
\* and has run a further check since (it is scanning again) while the device is
\* still silent and offline.
C3_Witness ==
    \E d \in LiveDevices :
        /\ ByTelemetry(d) /\ node_status[d].status = "offline"
        /\ h_off_events[d] = 1
        /\ s_pc = "mark" /\ s_todo = <<>> /\ s_size = 1
        /\ now - node_status[d].last_seen > OfflineThreshold + SweepInterval

\* C4: a telemetry update that found the device tracked offline when it wrote
\* the entry has emitted exactly one online event by the time it is acknowledged.
C4_OfflineTelemetryEmitsOnce ==
    (w_pc = "finish" /\ h_at_write = "offline") => h_events = 1

\* C5: a telemetry update that read the device as already online emits no
\* status-change event, and its write leaves the tracked state online.
C5_DuplicateOnlineNoEvent ==
    [][w_prev = "online" =>
          /\ h_events' = 0
          /\ (w_pc = "upd_write" /\ w_pc' = "upd_db") => node_status'[w_dev].status = "online"]_vars

\* A second telemetry of an online device has been processed, its upsert
\* committed: no event, state online.
C5_Witness ==
    /\ w_pc = "finish"
    /\ w_prev = "online"
    /\ h_at_write = "online"
    /\ h_events = 0
    /\ node_status[w_dev].status = "online"
    /\ db_status[w_dev] = "online"

\* C6: the tracked state of a device leaves online only in the monitor's mark
\* step, and only when more than the threshold has passed since its last_seen.
C6_OnlySweepDemotes ==
    [][\A d \in LiveDevices :
          (node_status[d].status = "online" /\ node_status'[d].status # "online")
              => (s_pc = "mark" /\ s_pc' = "persist"
                  /\ now - node_status[d].last_seen > OfflineThreshold)]_vars

\* C7: a device whose entry telemetry wrote less than the threshold ago is
\* neither offline nor in the course of being demoted by the monitor.
C7_NoFalseFlapping ==
    \A d \in LiveDevices :
        (ByTelemetry(d) /\ Fresh(d))
            => (node_status[d].status # "offline" /\ ~Demoting(d))

\* The live publish of command c, as the client took it.
LivePublishes(c) == {m \in h_msgs : m.cmd = c /\ ~m.retain}

\* C8 (as stated): publish_command has returned True only for commands whose
\* live publish the broker has confirmed (_on_publish has run for it).
C8_SuccessOnlyAfterConfirmation ==
    \A c \in h_true : c \in h_confirmed

\* C8 (amended): publish_command has returned True only for commands whose live
\* publish the MQTT client accepted with MQTT_ERR_SUCCESS and which it entered
\* in the pending table before returning; the confirmation is not waited for.
C8_SuccessOnlyAfterAccepted ==
    \A c \in h_true : c \in h_accepted /\ c \in h_tracked

\* publish_command has returned True for a command whose live publish is still
\* unconfirmed: the message is in the client's queue and its entry is pending.
C8_Witness ==
    \E c \in h_true :
        /\ c \notin h_confirmed
        /\ \E m \in out_messages :
              /\ m.cmd = c /\ ~m.retain
              /\ [mid |-> m.mid, cmd |-> c] \in pending_publishes

\* C9: for every command publish_command returned True for, the client has
\* taken the same envelope with retain set on the "last" topic of its device.
C9_TrueImpliesRetainedMirror ==
    \A c \in h_true :
        \A l \in LivePublishes(c) :
            \E m \in h_msgs : m.cmd = c /\ m.retain /\ m.topic = LastTopic(l.topic)

\* C10: for every command publish_command returned True for, the pending table
\* holds the entry of its live publish as long as that publish is unconfirmed,
\* and no longer holds it once _on_publish has run for it.
C10_PendingUntilConfirmed ==
    \A c \in h_true :
        \A l \in LivePublishes(c) :
            LET e == [mid |-> l.mid, cmd |-> c]
            IN /\ c \notin h_confirmed => e \in pending_publishes
               /\ c \in h_confirmed => e \notin pending_publishes

\* C13: a publish_command call that gives up because it cannot connect has
\* made repeated connection attempts (more than one) before returning False.
C13_RetriesBeforeGivingUp ==
    [][\A t \in PubThreads :
          (p_pc[t] = "connect" /\ p_pc'[t] = "idle") => h_attempts'[t] > 1]_vars

\* C11: every command send_command_to_device accepted (returned True for)
\* while the device was offline has been received by the device, or is queued
\* in its session at the broker, or is held by a manager client whose network
\* loop runs and will send it: none is stranded.
C11_OfflineCommandsDelivered ==
    \A c \in h_offline_accepted :
        \/ c \in d_received
        \/ c \in b_queue
        \/ c \in m_out /\ m_state = "started"

\* C12: no two envelopes ever built, by whichever publisher, carry the same
\* message_id.
C12_MessageIdsDistinct ==
    \A e1, e2 \in issued : e1.seq # e2.seq => e1.message_id # e2.message_id

\* The connection attempts of a call never exceed max_reconnect_attempts.
AttemptsBounded ==
    /\ r_attempt < MaxReconnectAttempts
    /\ r_reconnect_attempts <= MaxReconnectAttempts

\* C14: EnhancedRabbitMQClient makes at most max_reconnect_attempts connection
\* attempts per call, and publish_command gives up on connecting only when
\* all of them have failed: it then returns False and has appended one entry
\* to failed_messages.
C14_FailureOnlyAfterAllAttempts ==
    /\ []AttemptsBounded
    /\ [][(r_pc = "connect" /\ r_pc' = "idle")
             => /\ r_reconnect_attempts' = MaxReconnectAttempts
                /\ r_result' = "false"
                /\ r_failed' = r_failed + 1]_vars

\* A call has used up all attempts and returned False with its command recorded.
C14_Witness ==
    /\ r_pc = "idle"
    /\ r_result = "false"
    /\ r_reconnect_attempts = MaxReconnectAttempts
    /\ r_failed = 1
    /\ r_delay = MaxBackoff

\* C15: the worker never terminates because of connectivity failures: it keeps
\* retrying the connection and the consumption for as long as they fail.
C15_WorkerNeverStops == k_pc # "stopped"

\* Clients whose network loop runs: connected, or (re)connecting.
LiveClients == {c \in clients : c.loop}

\* C16: the publisher has at most one live broker client at any time: connect()
\* opens no second client while an earlier one is open or still connecting.
C16_AtMostOneLiveClient == Cardinality(LiveClients) <= 1

\* C17: every client the publisher connects with carries the same client id and
\* the persistent-session flag, so a reconnect resumes the broker session.
C17_SameSessionIdentity ==
    \A c1, c2 \in clients : c1.client_id = c2.client_id /\ ~c1.clean_session

\* The last delivery's body was not valid JSON.
InvalidJsonDelivered == k_last.kind = "telemetry" /\ Parse(k_last.body) # "ok"

\* C18: a telemetry delivery whose body is not valid JSON is nacked without
\* requeue and leaves the tracked device states as they were.
C18_InvalidJsonRejected ==
    InvalidJsonDelivered =>
        /\ k_settle = [how |-> "nack", requeue |-> FALSE]
        /\ node_status = k_last.before

\* The last delivery parsed and its storage failed.
StoreFailed == k_last.kind = "telemetry" /\ Parse(k_last.body) = "ok" /\ ~k_last.stored

\* C19: a delivery whose storage failed is nacked with requeue exactly if it
\* is not a redelivery.
C19_StoreFailureRequeuedOnce ==
    StoreFailed => k_settle = [how |-> "nack", requeue |-> ~k_last.redelivered]

\* C20: publish_command rejects a command exactly if its serialized envelope
\* exceeds 10240 bytes: the size check then returns False, counts one failure,
\* and neither publishes (live or retained) nor adds a pending entry; an
\* envelope at or below the limit passes the check with nothing counted.
C20_OversizeRejected ==
    [][\A t \in PubThreads :
          (p_pc[t] = "build" /\ p_pc'[t] # "build") =>
              IF p_size[t] > MaxPayloadBytes
                 THEN /\ p_pc'[t] = "idle"
                      /\ commands_failed' = commands_failed + 1
                      /\ UNCHANGED <<out_messages, h_msgs, pending_publishes, h_true>>
                 ELSE /\ p_pc'[t] = "publish"
                      /\ commands_failed' = commands_failed]_vars

\* A call with an oversize envelope connected, was refused, and left one counted
\* failure and nothing published or pending.
C20_Witness ==
    \E t \in PubThreads :
        /\ p_pc[t] = "idle"
        /\ p_size[t] > MaxPayloadBytes
        /\ h_attempts[t] = 1
        /\ is_connected
        /\ commands_failed = 1
        /\ h_msgs = {}
        /\ pending_publishes = {}
        /\ h_true = {}

\* C21: every publish_command call that fails (returns to the caller without
\* having returned True) appends one entry to failed_commands.
C21_FailuresLogged ==
    [][\A t \in PubThreads :
          (p_pc[t] # "idle" /\ p_pc'[t] = "idle" /\ h_true' = h_true)
              => failed_commands' = failed_commands + 1]_vars

\* C22: the answer to a broadcast over N connected devices, K of which could
\* not be published to, has success_count = N - K and total = N.
C22_BroadcastCounts ==
    bc_pc = "replied" =>
        /\ bc_result = Cardinality(h_bc_start) - Cardinality(h_bc_unpublished)
        /\ bc_total = Cardinality(h_bc_start)

\* C23: a broadcast that has returned attempted a publish for every device
\* that was in the connected set when it started.
C23_BroadcastReachesAll ==
    bc_pc \in {"done", "replied"} => h_bc_start \subseteq h_bc_attempted

\* C24: the envelope, serialized and parsed back, has the caller's action, the
\* message_id that was assigned, and every field of the caller's dict with its
\* value.
C24_EnvelopeKeepsCallerFields ==
    e_pc = "parsed" =>
        /\ <<"action", Text(h_e_action)>> \in e_parsed
        /\ <<"message_id", e_assigned>> \in e_parsed
        /\ e_command \subseteq e_parsed

\* C25: a command sent through the node-action route arrives with a message_id,
\* a cmd_timestamp, source "backend_api" and the caller's action.
C25_NodeActionMetadata ==
    (e_pc = "parsed" /\ e_via = "route") =>
        /\ {"message_id", "cmd_timestamp"} \subseteq Keys(e_parsed)
        /\ <<"source", Text("backend_api")>> \in e_parsed
        /\ <<"action", Text(h_e_action)>> \in e_parsed

\* A servo command of the node-action route was parsed by the device.
C25_Witness ==
    /\ e_pc = "parsed"
    /\ e_via = "route"
    /\ h_e_action = "SERVO"
    /\ <<"angle", Text("0")>> \in e_parsed
    /\ "url" \notin Keys(e_parsed)

\* C26: a notifier failure changes nothing else.  After a telemetry message
\* that was parsed and stored, the delivery is acked and the device is online
\* in memory and in its record; after a sweep mark the device is offline in
\* memory and, when the write went through, in its record; neither depends on
\* what the post returned, and each makes at most one status-change post.
TelemetryProcessed ==
    k_last.kind = "telemetry" /\ Parse(k_last.body) = "ok" /\ k_last.stored

C27_ShutdownDrainsPending ==
    (\A t \in PubThreads : p_pc[t] = "closed") =>
        /\ pending_publishes = {}
        /\ client = 0
        /\ ~link

\* C28: after the first telemetry message of a device that had no record,
\* the record exists, the device is tracked online, the telemetry row is
\* stored and the delivery is acknowledged.
C28_FirstTelemetryCreatesRecord ==
    (k_last.kind = "telemetry" /\ Parse(k_last.body) = "ok" /\ ~k_last.known) =>
        /\ nodes[k_last.dev] > 0
        /\ node_status[k_last.dev].status = "online"
        /\ k_last.stored
        /\ k_settle.how = "ack"

\* C29: a telemetry update that read a tracked state other than online
\* (offline, unknown, or no entry) has, when its upsert commits, left the
\* device online and emitted exactly one online event.
C29_NotOnlineTelemetryEmitsOnline ==
    [][(WUpdDbOk /\ w_prev # "online") =>
          /\ node_status'[w_dev].status = "online"
          /\ h_events' = 1]_vars

\* C30: in every quiescent state (no message being processed, the monitor
\* between two checks) the persisted status of a device whose entry telemetry
\* wrote, the monitor having demoted it or not, equals its tracked status.
C30_PersistedMatchesTracked ==
    (w_pc = "idle" /\ s_pc = "idle") =>
        \A d \in LiveDevices :
            ByTelemetry(d) => db_status[d] = node_status[d].status

\* C31: a telemetry delivery is acknowledged only when the status update of
\* its device has been persisted: at the acknowledgement of a telemetry
\* message the record of the device says online.
C31_AckOnlyAfterPersisted ==
    [][(WFinish /\ w_prev # "none") => db_status[w_dev] = "online"]_vars

\* C32: no message is redelivered without bound: whichever consumer handles
\* it and however its processing fails, a message is delivered at most twice
\* (requeued at most once).
C32_RequeuedAtMostOnce == q_deliveries <= 2

\* C37: every delivery handed to a consumer callback is settled exactly once:
\* the callback has made exactly one basic_ack or basic_nack call for it.
C37_SettledExactlyOnce == q_deliveries > 0 => Len(q_settles) = 1

\* The worker's callback met a message from which no node id can be extracted
\* and rejected it once, without requeue.
C37_Witness ==
    /\ q_consumer = "worker" /\ q_body = "object" /\ ~q_has_id
    /\ q_deliveries = 1
    /\ q_settles = Nack(FALSE)

\* C33: operations on the client's connection are serialized: the caller's
\* basic_publish never runs while the consumer thread is inside
\* process_data_events on the same connection.
C33_ChannelUseSerialized == ~(x_pub = "publish" /\ x_cons = "process")

\* C38: once disconnect() has returned the client stays disconnected: the
\* flag is_connected is false and no broker connection is open.
C38_StaysDisconnected == x_close = "closed" => (~x_is_connected /\ ~x_open)

\* C34: command publishing does not depend on the ingestion connection:
\* while the device manager's ingestion is down, a command it accepted can
\* still be handed to the broker.
C34_PublishIndependentOfIngestion ==
    \A c \in m_out : ~IngestionUp => ENABLED MgrNetFlush(c)

\* C35: in every connect loop the sleep before retry k (k = 0, 1, 2, ...)
\* is the base delay times 2^k, capped at 60 seconds.
C35_DelayDoublesToCap ==
    y_pc = "sleep" =>
        y_delay = (IF y_base * (2 ^ y_attempt) < MaxBackoff
                   THEN y_base * (2 ^ y_attempt) ELSE MaxBackoff)

\* C36: the diagnostic failure log is bounded: its length stays below a
\* fixed maximum however many publishes fail, so it does not come to hold one
\* entry for every one of the publish_command calls followed.
C36_FailureLogBounded == r_failed < MaxRmqCalls

\* C39: once every publish_command call has returned, the payload retained
\* on a device's last-command topic is the payload published last on its
\* live command topic.
C39_RetainedIsLastLive ==
    (\A t \in MirThreads : z_pc[t] = "idle") =>
        \A d \in Devices : z_retained[d] = z_live[d]

InitReg == RegInit /\ LiveIdle /\ PubIdle /\ CmdIdle /\ RmqIdle /\ WrkIdle /\ BcIdle /\ EnvIdle /\ DlvIdle /\ ConIdle /\ BkoIdle /\ MirIdle

SpecReg == InitReg /\ [][NextReg]_vars

\* Only the worker runs.
InitLive == LiveInit /\ RegIdle /\ PubIdle /\ CmdIdle /\ RmqIdle /\ WrkIdle /\ BcIdle /\ EnvIdle /\ DlvIdle /\ ConIdle /\ BkoIdle /\ MirIdle

SpecLive == InitLive /\ [][NextLive]_vars

\* The monitor thread (daemon, loops while running) and a worker callback that
\* has started are scheduled again; deliveries need not happen.
SweepStep ==
    \/ SweepStart \/ SweepScan \/ SweepScanDone \/ SweepIterError
    \/ SweepMark \/ SweepPersistOk \/ SweepPersistFail \/ SweepEmit \/ SweepEnd

WorkerStep ==
    \/ WUpdNow \/ WUpdRead \/ WUpdWrite \/ WUpdDbOk \/ WUpdDbFail \/ WFinish
    \/ WStatusWrite \/ WStatusDbOk \/ WStatusDbFail

SpecLiveFair == SpecLive /\ WF_vars(Tick) /\ WF_vars(SweepStep) /\ WF_vars(WorkerStep)

\* Only the command publisher runs.
InitPub == PubInit /\ RegIdle /\ LiveIdle /\ CmdIdle /\ RmqIdle /\ WrkIdle /\ BcIdle /\ EnvIdle /\ DlvIdle /\ ConIdle /\ BkoIdle /\ MirIdle

SpecPub == InitPub /\ [][NextPub]_vars

\* Only the command path of the device manager and the envelope builders run.
InitCmd == CmdInit /\ RegIdle /\ LiveIdle /\ PubIdle /\ RmqIdle /\ WrkIdle /\ BcIdle /\ EnvIdle /\ DlvIdle /\ ConIdle /\ BkoIdle /\ MirIdle

SpecCmd == InitCmd /\ [][NextCmd]_vars

\* Only the RabbitMQ client runs, as publisher.
InitRmq == RmqInit /\ RegIdle /\ LiveIdle /\ PubIdle /\ CmdIdle /\ WrkIdle /\ BcIdle /\ EnvIdle /\ DlvIdle /\ ConIdle /\ BkoIdle /\ MirIdle

SpecRmq == InitRmq /\ [][NextRmq]_vars

\* Only the worker's connection handling runs.
InitWrk == WrkInit /\ RegIdle /\ LiveIdle /\ PubIdle /\ CmdIdle /\ RmqIdle /\ BcIdle /\ EnvIdle /\ DlvIdle /\ ConIdle /\ BkoIdle /\ MirIdle

SpecWrk == InitWrk /\ [][NextWrk]_vars

\* Only a broadcast request and the MQTT callback thread of the device manager run.
InitBc == BcInit /\ RegIdle /\ LiveIdle /\ PubIdle /\ CmdIdle /\ RmqIdle /\ WrkIdle /\ EnvIdle /\ DlvIdle /\ ConIdle /\ BkoIdle /\ MirIdle

SpecBc == InitBc /\ [][NextBc]_vars

\* Only one command travels from its caller to the device.
InitEnv == EnvInit /\ RegIdle /\ LiveIdle /\ PubIdle /\ CmdIdle /\ RmqIdle /\ WrkIdle /\ BcIdle /\ DlvIdle /\ ConIdle /\ BkoIdle /\ MirIdle

SpecEnv == InitEnv /\ [][NextEnv]_vars

\* Only one queue with one consumer runs.
InitDlv == DlvInit /\ RegIdle /\ LiveIdle /\ PubIdle /\ CmdIdle /\ RmqIdle /\ WrkIdle /\ BcIdle /\ EnvIdle /\ ConIdle /\ BkoIdle /\ MirIdle

SpecDlv == InitDlv /\ [][NextDlv]_vars

\* Only the threads that share one RabbitMQ client run.
InitCon == ConInit /\ RegIdle /\ LiveIdle /\ PubIdle /\ CmdIdle /\ RmqIdle /\ WrkIdle /\ BcIdle /\ EnvIdle /\ DlvIdle /\ BkoIdle /\ MirIdle

SpecCon == InitCon /\ [][NextCon]_vars

\* Only one connect loop runs.
InitBko == BkoInit /\ RegIdle /\ LiveIdle /\ PubIdle /\ CmdIdle /\ RmqIdle /\ WrkIdle /\ BcIdle /\ EnvIdle /\ DlvIdle /\ ConIdle /\ MirIdle

SpecBko == InitBko /\ [][NextBko]_vars

\* Only the concurrent callers of publish_command run.
InitMir == MirInit /\ RegIdle /\ LiveIdle /\ PubIdle /\ CmdIdle /\ RmqIdle /\ WrkIdle /\ BcIdle /\ EnvIdle /\ DlvIdle /\ ConIdle /\ BkoIdle

SpecMir == InitMir /\ [][NextMir]_vars

\* The registration processors run and devices are deleted through the API.
SpecDel == InitReg /\ [][NextDel]_vars

====
